---- MODULE Spec2Model ----
(***************************************************************************)
(* Verification model of the Wikipedia index / retrieval / parsing         *)
(* pipeline (utils/wikipedia_utils.py, utils/parsing_utils.py,             *)
(* scripts/create_movie_database.py).                                      *)
(*                                                                         *)
(* Text is modelled as sequences of one-character strings, so that         *)
(* splitting, stripping and number parsing are computed, not assumed.      *)
(***************************************************************************)
EXTENDS Integers, Sequences, FiniteSets, TLC

VARIABLES
    \* ---- index build (build_index_database) ----
    storeExists,   \* os.path.exists(db_path)
    rows,          \* committed rows of wiki_articles, in rowid order
    fts,           \* committed rows of wiki_articles_fts (titles, by rowid)
    txnRows,       \* wiki_articles as seen inside the open connection
    txnFts,        \* wiki_articles_fts as seen inside the open connection
    source,        \* lines of the index source being read
    lineNo,        \* number of source lines consumed by the for loop
    batch,         \* the local list `batch`
    total,         \* the local counter `total`
    bpc,           \* position of build_index_database
    builds,        \* number of calls of build_index_database so far
    insertPasses,  \* number of calls that went past the exists check
    executed,      \* number of executemany INSERT statements executed
    committed,     \* conn.commit() of line 74 has been reached by a call
    lastLookup,    \* last (title, result) of get_offset_for_title
    \* ---- the archive (the dump file), fixed during a run ----
    corpus,        \* label -> wikitext of that label's record in the dump
    layout,        \* archive offset -> how the stream at that offset is laid out
    \* ---- create_movie_database / process_movie / redirect resolver ----
    worklist,      \* movie_list: the lines of the movie list file
    wi,            \* number of worklist titles the for loop has finished
    ppc,           \* position inside the batch loop and the calls below it
    orig,          \* article_title of the running process_movie call
    curTitle,      \* the local `title` of extract_article_follow_redirects
    depth,         \* iterations of the redirect loop started so far
    curOffset,     \* offset passed to extract_article_xml
    reads,         \* iterations of the read loop started so far
    xml_bytes,     \* decompressed pieces accumulated so far
    eof,           \* decompressor.eof: the end of the bz2 stream was seen
    resWt,         \* first component returned by get_wiki_text
    resTitle,      \* second component returned by get_wiki_text
    retLine,       \* line of the return statement the resolver left by
    exc,           \* exception propagating out of the running call, or "none"
    records,       \* movie_info values process_movie has returned, in order
    \* ---- one parser function called on its own ----
    fn,            \* the function that is called, "none" when none is
    fnArg,         \* the argument it is called with
    fnOut          \* what it returned; NotCalled before the return

buildVars == <<storeExists, rows, fts, txnRows, txnFts, source, lineNo, batch,
               total, bpc, builds, insertPasses, executed, committed,
               lastLookup>>

envVars == <<corpus, layout>>

pipeVars == <<worklist, wi, ppc, orig, curTitle, depth, curOffset, reads, xml_bytes,
              eof, resWt, resTitle, retLine, exc, records>>

fieldVars == <<fn, fnArg, fnOut>>

vars == <<buildVars, envVars, pipeVars, fieldVars>>

\* Python's None where an int is expected (offsets are never negative)
None == -1

(***************************************************************************)
(* Bounds of the model.                                                    *)
(***************************************************************************)
MaxLines  == 3      \* lines in an index source
MaxBuilds == 2      \* calls of build_index_database on the same db_path
BatchSize == 2      \* the flush threshold of line 55 (10000), scaled down
MaxTitles == 2      \* titles in the movie list

(***************************************************************************)
(* Character helpers.                                                      *)
(***************************************************************************)
Digits == {"0", "1", "2", "3", "4", "5", "6", "7", "8", "9"}

IsSpace(c) == c \in {" ", "\n", "\t"}

DigitVal(c) ==
    CASE c = "0" -> 0 [] c = "1" -> 1 [] c = "2" -> 2 [] c = "3" -> 3
      [] c = "4" -> 4 [] c = "5" -> 5 [] c = "6" -> 6 [] c = "7" -> 7
      [] c = "8" -> 8 [] c = "9" -> 9

\* the least and the greatest element of a non-empty set of integers
Least(S) == CHOOSE i \in S : \A j \in S : i <= j

Greatest(S) == CHOOSE i \in S : \A j \in S : j <= i

\* str.lstrip() / str.rstrip() / str.strip() with no argument
LStrip(s) ==
    LET keep == {k \in 1..Len(s) : ~IsSpace(s[k])} IN
    IF keep = {} THEN <<>> ELSE SubSeq(s, Least(keep), Len(s))

RStrip(s) ==
    LET keep == {k \in 1..Len(s) : ~IsSpace(s[k])} IN
    IF keep = {} THEN <<>> ELSE SubSeq(s, 1, Greatest(keep))

Strip(s) == RStrip(LStrip(s))

\* index of the first occurrence of character c in s at or after i, 0 if none
FindChar(s, c, i) ==
    LET hits == {k \in i..Len(s) : s[k] = c} IN
    IF hits = {} THEN 0 ELSE Least(hits)

\* str.split(sep, maxsplit): at most maxsplit cuts, the rest is kept whole
RECURSIVE Split(_, _, _)
Split(s, sep, maxsplit) ==
    LET k == FindChar(s, sep, 1) IN
    IF maxsplit = 0 \/ k = 0 THEN <<s>>
    ELSE <<SubSeq(s, 1, k - 1)>> \o Split(SubSeq(s, k + 1, Len(s)), sep, maxsplit - 1)

\* int(text): surrounding whitespace is accepted, then decimal digits only
IsIntLiteral(s) ==
    LET t == Strip(s) IN t # <<>> /\ \A i \in 1..Len(t) : t[i] \in Digits

RECURSIVE DigitsToInt(_, _)
DigitsToInt(t, acc) ==
    IF t = <<>> THEN acc ELSE DigitsToInt(Tail(t), acc * 10 + DigitVal(Head(t)))

ToInt(s) == DigitsToInt(Strip(s), 0)

(***************************************************************************)
(* Index store: build_index_database and get_offset_for_title.             *)
(***************************************************************************)
\* line.strip().split(":", 2) of line 50
SplitIndexLine_AllColons(line) == Split(Strip(line), ":", Len(line))

SplitIndexLine(line) == Split(Strip(line), ":", 2)

\* the unpacking into three names succeeds (no ValueError at line 50)
UnpackOk(line) == Len(SplitIndexLine(line)) = 3

\* int(offset) and int(page_id) of line 53 succeed
IntsOk(line) ==
    LET p == SplitIndexLine(line) IN IsIntLiteral(p[1]) /\ IsIntLiteral(p[2])

\* the tuple appended to batch at line 53
IndexTuple(line) ==
    LET p == SplitIndexLine(line) IN
    [title |-> p[3], offset |-> ToInt(p[1]), page_id |-> ToInt(p[2])]

HasTitle(table, title) == \E i \in 1..Len(table) : table[i].title = title

\* (variant without the primary key: every tuple is inserted)
InsertOrIgnore_Every(table, tuples) == table \o tuples

\* executemany("INSERT OR IGNORE ..."): title is the primary key, a tuple
\* whose title is already present is ignored
RECURSIVE InsertOrIgnore(_, _)
InsertOrIgnore(table, tuples) ==
    IF tuples = <<>> THEN table
    ELSE InsertOrIgnore(
             IF HasTitle(table, Head(tuples).title) THEN table
             ELSE Append(table, Head(tuples)),
             Tail(tuples))

\* INSERT INTO wiki_articles_fts(rowid, title) SELECT rowid, title FROM wiki_articles
PopulateFts(table) == [i \in 1..Len(table) |-> table[i].title]

\* SELECT offset FROM wiki_articles WHERE title = ?  (lines 102-109)
get_offset_for_title(title, table) ==
    IF HasTitle(table, title)
    THEN table[CHOOSE i \in 1..Len(table) : table[i].title = title].offset
    ELSE None

\* str(n) for the natural numbers written into an index source
RECURSIVE IntToDigits(_)
IntToDigits(n) ==
    LET d == CHOOSE c \in Digits : DigitVal(c) = n % 10 IN
    IF n < 10 THEN <<d>> ELSE Append(IntToDigits(n \div 10), d)

\* One line of the index source, "offset:docId:label\n", as the dump writes it
FormatLine(e) ==
    IntToDigits(e.offset) \o <<":">> \o IntToDigits(e.page_id) \o <<":">>
        \o e.title \o <<"\n">>

Row(t, o, p) == [title |-> t, offset |-> o, page_id |-> p]

\* Entries an index source is written from: plain labels, a label that
\* contains a colon, two labels sharing an offset, and a repeated label.
Entries ==
    { Row(<<"A">>, 10, 1), Row(<<"A", ":", "B">>, 10, 2),
      Row(<<"B">>, 30, 3), Row(<<"A">>, 40, 4) }

\* Other lines found in a source: too few colons, blank, non-numeric offset
L_Short == <<"5", "0", ":", "B", "\n">>
L_Blank == <<"\n">>
L_NaN   == <<"x", ":", "7", ":", "B", "\n">>

Lines == {FormatLine(e) : e \in Entries} \cup {L_Short, L_Blank, L_NaN}

Sources == UNION {[1..n -> Lines] : n \in 0..MaxLines}

\* Stores that may already sit at db_path before the first call
OldStores == {<<>>, <<Row(<<"Z">>, 5, 1)>>, <<Row(<<"A">>, 99, 9), Row(<<"B">>, 98, 8)>>}

BuildInit ==
    /\ storeExists \in BOOLEAN
    /\ rows \in (IF storeExists THEN OldStores ELSE {<<>>})
    /\ fts = PopulateFts(rows)
    /\ txnRows = <<>>
    /\ txnFts = <<>>
    /\ source = <<>>
    /\ lineNo = 0
    /\ batch = <<>>
    /\ total = 0
    /\ bpc = "idle"
    /\ builds = 0
    /\ insertPasses = 0
    /\ executed = 0
    /\ committed = FALSE
    /\ lastLookup = <<>>

BuildIdle == bpc \in {"idle", "done", "raised"}

\* os.path.exists(db_path) of line 28
StoreFound_Never == FALSE

StoreFound == storeExists

\* lines 28-30: the store exists, the call returns at once
BuildFoundExisting ==
    /\ BuildIdle /\ builds < MaxBuilds
    /\ StoreFound
    /\ builds' = builds + 1
    /\ bpc' = "done"
    /\ UNCHANGED <<storeExists, rows, fts, txnRows, txnFts, source, lineNo,
                   batch, total, insertPasses, executed, committed, lastLookup>>
    /\ UNCHANGED <<envVars, pipeVars, fieldVars>>

\* lines 32-47: connect, create the two tables (DDL is committed at once, so
\* the file exists from here on), open the index source
BuildBegin ==
    /\ BuildIdle /\ builds < MaxBuilds
    /\ ~StoreFound
    /\ \E src \in Sources : source' = src
    /\ builds' = builds + 1
    /\ insertPasses' = insertPasses + 1
    /\ storeExists' = TRUE
    /\ rows' = <<>> /\ fts' = <<>>
    /\ txnRows' = <<>> /\ txnFts' = <<>>
    /\ batch' = <<>> /\ total' = 0 /\ lineNo' = 0
    /\ bpc' = "reading"
    /\ UNCHANGED <<executed, committed, lastLookup>>
    /\ UNCHANGED <<envVars, pipeVars, fieldVars>>

\* lines 48-52: a line that does not unpack into three parts is skipped
BuildSkipLine ==
    /\ bpc = "reading" /\ lineNo < Len(source)
    /\ ~UnpackOk(source[lineNo + 1])
    /\ lineNo' = lineNo + 1
    /\ UNCHANGED <<storeExists, rows, fts, txnRows, txnFts, source, batch,
                   total, bpc, builds, insertPasses, executed, committed, lastLookup>>
    /\ UNCHANGED <<envVars, pipeVars, fieldVars>>

\* line 53: int() of a non-numeric offset or page id raises ValueError outside
\* the try block; the call ends, the connection is dropped uncommitted
BuildRaise ==
    /\ bpc = "reading" /\ lineNo < Len(source)
    /\ UnpackOk(source[lineNo + 1]) /\ ~IntsOk(source[lineNo + 1])
    /\ bpc' = "raised"
    /\ txnRows' = <<>> /\ txnFts' = <<>>
    /\ UNCHANGED <<storeExists, rows, fts, source, lineNo, batch, total,
                   builds, insertPasses, executed, committed, lastLookup>>
    /\ UNCHANGED <<envVars, pipeVars, fieldVars>>

\* (variant in which a full batch is committed when it is inserted)
BuildAppendLine_Committing ==
    /\ bpc = "reading" /\ lineNo < Len(source)
    /\ UnpackOk(source[lineNo + 1]) /\ IntsOk(source[lineNo + 1])
    /\ LET b == Append(batch, IndexTuple(source[lineNo + 1])) IN
         IF Len(b) >= BatchSize
         THEN /\ rows' = InsertOrIgnore(rows, b)
              /\ txnRows' = InsertOrIgnore(txnRows, b)
              /\ batch' = <<>>
              /\ executed' = executed + 1
         ELSE /\ batch' = b
              /\ UNCHANGED <<rows, txnRows, executed>>
    /\ total' = total + 1
    /\ lineNo' = lineNo + 1
    /\ UNCHANGED <<storeExists, fts, txnFts, source, bpc, builds,
                   insertPasses, committed, lastLookup>>
    /\ UNCHANGED <<envVars, pipeVars, fieldVars>>

\* lines 53-61: append the tuple; a full batch is inserted and cleared
BuildAppendLine ==
    /\ bpc = "reading" /\ lineNo < Len(source)
    /\ UnpackOk(source[lineNo + 1]) /\ IntsOk(source[lineNo + 1])
    /\ LET b == Append(batch, IndexTuple(source[lineNo + 1])) IN
         IF Len(b) >= BatchSize
         THEN /\ txnRows' = InsertOrIgnore(txnRows, b)
              /\ batch' = <<>>
              /\ executed' = executed + 1
         ELSE /\ batch' = b
              /\ UNCHANGED <<txnRows, executed>>
    /\ total' = total + 1
    /\ lineNo' = lineNo + 1
    /\ UNCHANGED <<storeExists, rows, fts, txnFts, source, bpc, builds,
                   insertPasses, committed, lastLookup>>
    /\ UNCHANGED <<envVars, pipeVars, fieldVars>>

\* lines 63-72: insert the last partial batch, then fill the search index
BuildFinish ==
    /\ bpc = "reading" /\ lineNo = Len(source)
    /\ LET t == IF batch # <<>> THEN InsertOrIgnore(txnRows, batch) ELSE txnRows IN
         /\ txnRows' = t
         /\ txnFts' = PopulateFts(t)
    /\ executed' = IF batch # <<>> THEN executed + 1 ELSE executed
    /\ bpc' = "commit"
    /\ UNCHANGED <<storeExists, rows, fts, source, lineNo, batch, total,
                   builds, insertPasses, committed, lastLookup>>
    /\ UNCHANGED <<envVars, pipeVars, fieldVars>>

\* lines 74-76: the single commit, close
BuildCommit ==
    /\ bpc = "commit"
    /\ rows' = txnRows
    /\ fts' = txnFts
    /\ txnRows' = <<>> /\ txnFts' = <<>>
    /\ bpc' = "done"
    /\ committed' = TRUE
    /\ UNCHANGED <<storeExists, source, lineNo, batch, total, builds,
                   insertPasses, executed, lastLookup>>
    /\ UNCHANGED <<envVars, pipeVars, fieldVars>>

\* Titles a reader asks for
LookupTitles == {<<"A">>, <<"A", ":", "B">>, <<"B">>, <<"a">>, <<"B", "\n">>}

\* a reader calls get_offset_for_title on the store a build call has left
Lookup ==
    /\ bpc \in {"done", "raised"}
    /\ \E t \in LookupTitles : lastLookup' = <<t, get_offset_for_title(t, rows)>>
    /\ UNCHANGED <<storeExists, rows, fts, txnRows, txnFts, source, lineNo,
                   batch, total, bpc, builds, insertPasses, executed, committed>>
    /\ UNCHANGED <<envVars, pipeVars, fieldVars>>

(***************************************************************************)
(* The archive: bz2 streams of page records, read in fixed-size chunks.    *)
(***************************************************************************)
\* Optional[str] None; wikitext is a sequence of tokens, never this one
NoText == <<"None">>

TA == <<"A">>
TB == <<"B">>
TC == <<"C">>
TD == <<"D">>
TQ == <<"Q">>      \* a label neither the index nor the dump holds

Labels == {TA, TB, TC, TD}

\* Page texts: an article, an empty text, a blank text, aliases in several
\* spellings, an alias directive without a bracketed target, with an empty
\* target, and an article that merely mentions the directive.
T_Article       == <<"x">>
T_Empty         == <<>>
T_Blank         == <<" ">>
T_Redirect(l)   == <<"#REDIRECT", " ", "[", "[">> \o l \o <<"]", "]">>
T_RedirectLc(l) == <<"\n", "#redirect", "[", "[", " ">> \o l
                       \o <<" ", "]", "]", "\n", "x">>
T_NoTarget      == <<"#REDIRECT", " ", "x">>
T_EmptyTarget   == <<"#Redirect", "[", "[", " ", "]", "]">>
T_Mention       == <<"x", " ", "#REDIRECT", " ", "[", "[", "B", "]", "]">>

Corpora ==
    { c \in [Labels -> {T_Article, T_Empty, T_Blank, T_NoTarget, T_EmptyTarget,
                        T_Mention, T_Redirect(TA), T_Redirect(TB),
                        T_RedirectLc(TB), T_Redirect(TC), T_Redirect(TD),
                        T_Redirect(TQ)}] :
        /\ c[TB] \in {T_Article, T_Redirect(TA), T_Redirect(TC)}
        /\ c[TC] \in {T_Article, T_Redirect(TD)}
        /\ c[TD] = T_Article
        /\ c[TA] # T_Redirect(TD) }

\* A text is a sequence of lexemes: one-character strings, and the words and
\* tags below, each standing for its characters in order.  Words are never
\* adjacent in a text (a separator always stands between two of them), so a
\* lexeme boundary next to a word is a word boundary of the character text.
LowerWords ==
    {"infobox", "film", "films", "plainlist", "name", "title", "director",
     "directed", "by", "budget", "gross", "box", "office", "release",
     "released", "date", "running", "time", "runtime", "minutes", "min",
     "million", "billion", "bn", "and", "comedy", "drama", "horror", "genre",
     "rotten", "tomatoes", "metacritic", "score", "out", "of", "percent",
     "data", "prose", "is", "an", "rt", "us", "usd", "efn", "nowrap", "nbsp",
     "file", "dr", "june", "may", "euro", "start", "age", "on", "has", "ref", "br", "dollar", "united", "states",
     "alpha", "beta", "ann", "bob"}

CapWords ==
    {"Infobox", "Film", "Plainlist", "Director", "Alpha", "Beta", "Ann",
     "Bob", "Comedy", "Drama", "Rotten", "Tomatoes", "Metacritic", "RT", "US",
     "USD", "File", "Dr", "June", "May", "Euro", "Million", "Min", "United",
     "States"}

CapLower ==
    [t \in CapWords |->
        CASE t = "Infobox" -> "infobox" [] t = "Film" -> "film"
          [] t = "Plainlist" -> "plainlist" [] t = "Director" -> "director"
          [] t = "Alpha" -> "alpha" [] t = "Beta" -> "beta"
          [] t = "Ann" -> "ann" [] t = "Bob" -> "bob"
          [] t = "Comedy" -> "comedy" [] t = "Drama" -> "drama"
          [] t = "Rotten" -> "rotten" [] t = "Tomatoes" -> "tomatoes"
          [] t = "Metacritic" -> "metacritic" [] t = "RT" -> "rt"
          [] t = "US" -> "us" [] t = "USD" -> "usd" [] t = "File" -> "file"
          [] t = "Dr" -> "dr" [] t = "June" -> "june" [] t = "May" -> "may"
          [] t = "Euro" -> "euro" [] t = "Million" -> "million"
          [] t = "Min" -> "min" [] t = "United" -> "united"
          [] t = "States" -> "states"]

\* one-letter words: the labels of the archive and the fillers of the texts
UpperLetters == {"A", "B", "C", "D", "Q", "U", "S"}

LowerLetters == {"a", "b", "c", "d", "q", "u", "s", "x", "y", "m"}

\* str.isalpha() of every character of the lexeme
IsWord(t) == t \in LowerWords \cup CapWords \cup UpperLetters \cup LowerLetters

\* str.islower() of the first character of the lexeme
StartsLower(t) == t \in LowerWords \cup LowerLetters

\* str.lower() on one lexeme
LowerTok(t) ==
    CASE t \in CapWords -> CapLower[t]
      [] t \in {"#REDIRECT", "#Redirect"} -> "#redirect"
      [] t = "A" -> "a" [] t = "B" -> "b" [] t = "C" -> "c" [] t = "D" -> "d"
      [] t = "Q" -> "q" [] t = "U" -> "u" [] t = "S" -> "s"
      [] OTHER -> t

\* len() of one lexeme
WordLen ==
    [t \in LowerWords |->
        CASE t \in {"by", "bn", "of", "is", "an", "rt", "us", "dr", "on", "br"} -> 2
          [] t \in {"box", "min", "and", "out", "usd", "efn", "may", "age",
                    "ann", "bob", "has", "ref"} -> 3
          [] t \in {"film", "name", "date", "time", "data", "nbsp", "file",
                    "june", "euro", "beta"} -> 4
          [] t \in {"films", "title", "gross", "drama", "genre", "score",
                    "prose", "start", "alpha"} -> 5
          [] t \in {"budget", "office", "comedy", "horror", "rotten",
                    "nowrap", "dollar", "united", "states"} -> 6
          [] t \in {"infobox", "release", "running", "runtime", "minutes",
                    "million", "billion", "percent"} -> 7
          [] t \in {"director", "directed", "released", "tomatoes"} -> 8
          [] t = "plainlist" -> 9
          [] t = "metacritic" -> 10]

CharLen(t) ==
    CASE LowerTok(t) \in LowerWords -> WordLen[LowerTok(t)]
      [] LowerTok(t) = "#redirect" -> 9
      [] OTHER -> 1

\* Pieces of decompressed XML.  "page" is one complete <page>...</page>
\* record; "open" is the beginning of a record up to somewhere before its
\* </page>; "mid" is more of the open record, still without </page>; "close"
\* is the rest of the open record including its text and </page>; "junk" is
\* bytes that are not well-formed inside <root>...</root>.
Page(c, l)  == [k |-> "page", title |-> l, text |-> c[l]]
Open(l)     == [k |-> "open", title |-> l, text |-> <<>>]
Mid         == [k |-> "mid", title |-> <<>>, text |-> <<>>]
Close(c, l) == [k |-> "close", title |-> l, text |-> c[l]]
Junk        == [k |-> "junk", title |-> <<>>, text |-> <<>>]

\* One read(1024 * 1024) worth of compressed bytes: what decompressing it
\* yields, whether the bz2 stream ends inside it, whether it is not bz2 data
Chunk(out, ends, bad) == [out |-> out, ends |-> ends, bad |-> bad]

\* range(40) of line 123
MaxReads == 40

\* The stream that starts at an offset and the bytes after it, chunk by
\* chunk, for the two records x, y stored at that offset.
BlockOf(shape, c, x, y) ==
    CASE shape = "both"      -> <<Chunk(<<Page(c, x), Page(c, y)>>, TRUE, FALSE)>>
      [] shape = "swapped"   -> <<Chunk(<<Page(c, y), Page(c, x)>>, TRUE, FALSE)>>
      [] shape = "cut_y"     -> <<Chunk(<<Page(c, x), Open(y)>>, FALSE, FALSE),
                                  Chunk(<<Close(c, y)>>, TRUE, FALSE)>>
      [] shape = "cut_x"     -> <<Chunk(<<>>, FALSE, FALSE),
                                  Chunk(<<Open(x)>>, FALSE, FALSE),
                                  Chunk(<<Close(c, x), Page(c, y)>>, TRUE, FALSE)>>
      [] shape = "invalid"   -> <<Chunk(<<>>, FALSE, TRUE)>>
      [] shape = "ended"     -> <<Chunk(<<Junk>>, TRUE, FALSE),
                                  Chunk(<<Page(c, x)>>, TRUE, FALSE)>>
      [] shape = "truncated" -> <<Chunk(<<Open(x)>>, FALSE, FALSE)>>
      [] shape = "nothing"   -> <<>>
      [] shape = "junk"      -> <<Chunk(<<Junk, Page(c, x), Page(c, y)>>, TRUE, FALSE)>>
      [] shape = "twice"     -> <<Chunk(<<[k |-> "page", title |-> x, text |-> <<>>],
                                          Page(c, x), Page(c, y)>>, TRUE, FALSE)>>
      [] shape = "case"      -> <<Chunk(<<[k |-> "page", title |-> <<LowerTok(x[1])>>,
                                           text |-> T_Article], Page(c, y)>>,
                                        TRUE, FALSE)>>
      [] shape = "huge"      -> <<Chunk(<<Open(x)>>, FALSE, FALSE)>>
                                  \o [i \in 1..MaxReads |-> Chunk(<<Mid>>, FALSE, FALSE)]
                                  \o <<Chunk(<<Close(c, x)>>, TRUE, FALSE)>>

Shapes10 == {"both", "swapped", "cut_y", "cut_x", "invalid", "ended",
             "truncated", "nothing", "junk", "twice", "case", "huge"}
Shapes30 == {"both", "invalid"}

Offsets == {10, 30}

Layouts == {l \in [Offsets -> Shapes10] : l[30] \in Shapes30}

\* The chunks found from an offset on: A and B are stored at 10, C and D at 30
Archive(c, l, off) ==
    IF off = 10 THEN BlockOf(l[10], c, TA, TB)
    ELSE IF off = 30 THEN BlockOf(l[30], c, TC, TD)
    ELSE <<>>

\* Index stores the pipeline runs against: complete, C and D not indexed,
\* and one whose offset for A is stale
Stores ==
    { <<Row(TA, 10, 1), Row(TB, 10, 2), Row(TC, 30, 3), Row(TD, 30, 4)>>,
      <<Row(TA, 10, 1), Row(TB, 10, 2)>>,
      <<Row(TA, 30, 1), Row(TB, 10, 2), Row(TC, 30, 3), Row(TD, 30, 4)>> }

(***************************************************************************)
(* Document selector and alias detection.                                  *)
(***************************************************************************)
\* b"</page>" in xml_bytes  (line 128)
HasMarker_Never(buf) == FALSE

HasMarker(buf) == \E i \in 1..Len(buf) : buf[i].k \in {"page", "close"}

\* extract_wikitext_from_xml (lines 134-148): walk the end events in order;
\* `pending` is the title of a record that has begun and not ended yet.
\* ParseError is raised where the parser meets the malformed bytes, after the
\* events before them have been delivered.
RECURSIVE SelectFrom(_, _, _, _)
SelectFrom(buf, i, pending, label) ==
    IF i > Len(buf) THEN NoText
    ELSE LET p == buf[i] IN
      CASE p.k = "junk" -> NoText
        [] p.k = "page" ->
             IF pending # NoText THEN NoText
             ELSE IF p.title = label /\ p.text # <<>> THEN p.text
             ELSE SelectFrom(buf, i + 1, pending, label)
        [] p.k = "open" ->
             IF pending # NoText THEN NoText
             ELSE SelectFrom(buf, i + 1, p.title, label)
        [] p.k = "mid" ->
             IF pending = NoText THEN NoText
             ELSE SelectFrom(buf, i + 1, pending, label)
        [] p.k = "close" ->
             IF pending = NoText THEN NoText
             ELSE IF pending = label /\ p.text # <<>> THEN p.text
             ELSE SelectFrom(buf, i + 1, NoText, label)

\* (variant that settles on the first record carrying the label)
RECURSIVE SelectFirstTitle(_, _, _, _)
SelectFirstTitle(buf, i, pending, label) ==
    IF i > Len(buf) THEN NoText
    ELSE LET p == buf[i] IN
      CASE p.k = "junk" -> NoText
        [] p.k = "page" ->
             IF pending # NoText THEN NoText
             ELSE IF p.title = label THEN (IF p.text # <<>> THEN p.text ELSE NoText)
             ELSE SelectFirstTitle(buf, i + 1, pending, label)
        [] p.k = "open" ->
             IF pending # NoText THEN NoText
             ELSE SelectFirstTitle(buf, i + 1, p.title, label)
        [] p.k = "mid" ->
             IF pending = NoText THEN NoText
             ELSE SelectFirstTitle(buf, i + 1, pending, label)
        [] p.k = "close" ->
             IF pending = NoText THEN NoText
             ELSE IF pending = label THEN (IF p.text # <<>> THEN p.text ELSE NoText)
             ELSE SelectFirstTitle(buf, i + 1, NoText, label)

extract_wikitext_from_xml_FirstTitle(xml_text, label) ==
    SelectFirstTitle(xml_text, 1, NoText, label)

extract_wikitext_from_xml(xml_text, label) == SelectFrom(xml_text, 1, NoText, label)

\* `not wikitext`: None or the empty string
Falsy(w) == w = NoText \/ w = <<>>

\* is_redirect (lines 151-152)
is_redirect_Anywhere(w) ==
    ~Falsy(w) /\ \E i \in 1..Len(w) : LowerTok(w[i]) = "#redirect"

is_redirect(w) ==
    /\ ~Falsy(w)
    /\ Strip(w) # <<>>
    /\ LowerTok(Strip(w)[1]) = "#redirect"

\* first index >= i whose token is not whitespace (\s*)
SkipSpace(w, i) ==
    LET stops == {k \in i..Len(w) : ~IsSpace(w[k])} IN
    IF i > Len(w) THEN i ELSE IF stops = {} THEN Len(w) + 1 ELSE Least(stops)

\* first index >= i holding "]]" with no newline before it ((.*?)\]\]), else 0
FindClose(w, i) ==
    LET hits == {k \in i..(Len(w) - 1) :
                    /\ w[k] = "]" /\ w[k + 1] = "]"
                    /\ \A x \in i..k : w[x] # "\n"}
    IN IF hits = {} THEN 0 ELSE Least(hits)

\* the regex #redirect\s*\[\[(.*?)\]\] matches starting at token i
RedirectMatchAt(w, i) ==
    /\ LowerTok(w[i]) = "#redirect"
    /\ LET j == SkipSpace(w, i + 1) IN
         /\ j < Len(w) /\ w[j] = "[" /\ w[j + 1] = "["
         /\ FindClose(w, j + 2) # 0

\* resolve_redirect_target (lines 155-157): group(1).strip() of the first
\* match, None without a match
resolve_redirect_target(w) ==
    LET starts == {i \in 1..Len(w) : RedirectMatchAt(w, i)} IN
    IF starts = {} THEN NoText
    ELSE LET i == CHOOSE a \in starts : \A b \in starts : a <= b
             j == SkipSpace(w, i + 1)
         IN Strip(SubSeq(w, j + 2, FindClose(w, j + 2) - 1))

(***************************************************************************)
(* Classification service (classify_movie, _query_model_first_token).      *)
(***************************************************************************)
\* category (lines 60-67)
category ==
    [n \in 0..5 |->
        CASE n = 0 -> "undetermined" [] n = 1 -> "sequel" [] n = 2 -> "remake"
          [] n = 3 -> "franchise" [] n = 4 -> "adapted" [] n = 5 -> "original"]

\* Token streams the model may produce: a digit of the expected range, a
\* digit after an empty chunk and with padding, no token at all, only a
\* newline, a digit outside the range, a word.
Streams ==
    { <<(<<"0">>)>>, <<(<<"1">>), (<<"\n">>)>>, <<(<<>>), (<<" ", "4", "\n">>)>>,
      <<(<<"5">>)>>, <<>>, <<(<<"\n">>), (<<"3">>)>>, <<(<<"7">>)>>,
      <<(<<"T", "h", "e">>)>> }

\* _query_model_first_token (lines 81-93): the first non-empty token, stripped
RECURSIVE first_token(_)
first_token(stream) ==
    IF stream = <<>> THEN <<>>
    ELSE IF Head(stream) # <<>> THEN Strip(Head(stream))
    ELSE first_token(Tail(stream))

\* category[int(model_response)] of line 107: the label, or the exception
\* int() or the dict lookup raises
ClassifyOutcome(stream) ==
    LET r == first_token(stream) IN
    IF ~IsIntLiteral(r) THEN [ok |-> FALSE, val |-> "ValueError"]
    ELSE IF ToInt(r) \notin DOMAIN category THEN [ok |-> FALSE, val |-> "KeyError"]
    ELSE [ok |-> TRUE, val |-> category[ToInt(r)]]

(***************************************************************************)
(* Markup field parser (parsing_utils.py).  A wikitext is a sequence of    *)
(* lexemes: every character that is not a letter is a lexeme of its own,   *)
(* a run of letters is one word.                                           *)
(***************************************************************************)
\* Values of a record field: an int, None, or a str
IntV(n) == [t |-> "int", v |-> n]
NoneV   == [t |-> "none", v |-> 0]
StrV(s) == [t |-> "str", v |-> s]

\* s[i:] and s[:i] with 1-based i
From(s, i) == SubSeq(s, i, Len(s))
Upto(s, i) == SubSeq(s, 1, i - 1)

\* s.startswith(p, i)
StartsWithAt(s, p, i) ==
    /\ i >= 1 /\ i + Len(p) - 1 <= Len(s)
    /\ SubSeq(s, i, i + Len(p) - 1) = p

\* s.find(p, i): first index >= i where p occurs, 0 if none
FindSeq(s, p, i) ==
    LET hits == {k \in i..Len(s) : StartsWithAt(s, p, k)} IN
    IF hits = {} THEN 0 ELSE Least(hits)

Contains(s, p) == FindSeq(s, p, 1) # 0

\* first index >= i whose lexeme is in set, 0 if none
FindIn(s, set, i) ==
    LET hits == {k \in i..Len(s) : s[k] \in set} IN
    IF hits = {} THEN 0 ELSE Least(hits)

\* the same, Len(s) + 1 if none
UntilIn(s, set, i) == IF FindIn(s, set, i) = 0 THEN Len(s) + 1 ELSE FindIn(s, set, i)

\* first index >= i whose lexeme is not in set, Len(s) + 1 if none
SkipIn(s, set, i) ==
    LET stops == {k \in i..Len(s) : s[k] \notin set} IN
    IF i > Len(s) THEN i ELSE IF stops = {} THEN Len(s) + 1 ELSE Least(stops)

\* s.lower()
Lower(s) == [i \in 1..Len(s) |-> LowerTok(s[i])]

\* s.replace(p, r)
RECURSIVE Replace(_, _, _)
Replace(s, p, r) ==
    LET k == FindSeq(s, p, 1) IN
    IF k = 0 THEN s
    ELSE Upto(s, k) \o r \o Replace(From(s, k + Len(p)), p, r)

\* s.lstrip(c) for one character c
LStripChar(s, c) == From(s, SkipIn(s, {c}, 1))

\* s.splitlines()
RECURSIVE SplitLines(_)
SplitLines(s) ==
    LET k == FindChar(s, "\n", 1) IN
    IF s = <<>> THEN <<>>
    ELSE IF k = 0 THEN <<s>>
    ELSE <<Upto(s, k)>> \o SplitLines(From(s, k + 1))

\* re.sub(pattern, repl, s).  M(s, i) is the index just past the match of
\* the pattern that starts at i, 0 when no match starts there; R(s, i, e) is
\* what replaces the match s[i..e-1].  Matches are taken leftmost first and
\* do not overlap.
SubAll(s, M(_, _), R(_, _, _)) ==
    LET starts == {k \in 1..Len(s) : M(s, k) > k}
        f[i \in 1..(Len(s) + 1)] ==
            LET rest == {k \in starts : k >= i} IN
            IF rest = {} THEN From(s, i)
            ELSE SubSeq(s, i, Least(rest) - 1)
                 \o R(s, Least(rest), M(s, Least(rest))) \o f[M(s, Least(rest))]
    IN f[1]

Nothing(s, i, e) == <<>>

OneSpace(s, i, e) == <<" ">>

\* the least of a set of indices, 0 when there is none
FirstIn(S) == IF S = {} THEN 0 ELSE Least(S)

\* Python's `a or b` on two strings
OrElse(a, b) == IF a # <<>> THEN a ELSE b

\* re.search(pattern, s): the start of the leftmost match, 0 when none
Search(s, M(_, _)) ==
    LET hits == {i \in 1..Len(s) : M(s, i) # 0} IN
    IF hits = {} THEN 0 ELSE Least(hits)

\* dict access: `key in fields`, fields[key] = value, fields.get(key, "")
HasKey(fields, key) == key \in DOMAIN fields

\* a key that is there keeps what it holds, and can only be added to
Put_KeepFirst(fields, key, value) ==
    IF /\ key \in DOMAIN fields
       /\ ~(/\ Len(value) > Len(fields[key])
            /\ SubSeq(value, 1, Len(fields[key]) + 1) = fields[key] \o <<"\n">>)
    THEN fields
    ELSE [k \in (DOMAIN fields) \cup {key} |-> IF k = key THEN value ELSE fields[k]]

Put(fields, key, value) ==
    [k \in (DOMAIN fields) \cup {key} |-> IF k = key THEN value ELSE fields[k]]

Get(fields, key) == IF HasKey(fields, key) THEN fields[key] ELSE <<>>

\* ---- the patterns shared by the extractors ----
\* <ref[^>]*>
M_RefOpen(s, i) ==
    IF StartsWithAt(s, <<"<", "ref">>, i) /\ FindChar(s, ">", i + 2) # 0
    THEN FindChar(s, ">", i + 2) + 1 ELSE 0

\* <ref[^>]*>.*?</ref> with re.DOTALL
M_RefSpan(s, i) ==
    LET o == M_RefOpen(s, i)
        c == IF o = 0 THEN 0 ELSE FindSeq(s, <<"<", "/", "ref", ">">>, o)
    IN IF c = 0 THEN 0 ELSE c + 4

\* <ref[^>]*/>
M_RefSelf(s, i) ==
    LET o == M_RefOpen(s, i) IN
    IF o # 0 /\ o - 2 >= i + 2 /\ s[o - 2] = "/" THEN o ELSE 0

\* <!--.*?--> with re.DOTALL
M_Comment(s, i) ==
    LET c == IF StartsWithAt(s, <<"<", "!", "-", "-">>, i)
             THEN FindSeq(s, <<"-", "-", ">">>, i + 4) ELSE 0
    IN IF c = 0 THEN 0 ELSE c + 3

\* \{\{\s*efn[^}]*\}\} with re.IGNORECASE
M_Efn(s, i) ==
    LET j == SkipSpace(s, i + 2)
        c == FindChar(s, "}", j + 1)
    IN IF /\ StartsWithAt(s, <<"{", "{">>, i)
          /\ j <= Len(s) /\ LowerTok(s[j]) = "efn"
          /\ c # 0 /\ StartsWithAt(s, <<"}", "}">>, c)
       THEN c + 2 ELSE 0

\* \{\{\s*nowrap\|([^{}]+?)\}\} with re.IGNORECASE
M_Nowrap(s, i) ==
    LET j == SkipSpace(s, i + 2)
        c == FindIn(s, {"{", "}"}, j + 2)
    IN IF /\ StartsWithAt(s, <<"{", "{">>, i)
          /\ j < Len(s) /\ LowerTok(s[j]) = "nowrap" /\ s[j + 1] = "|"
          /\ c >= j + 3 /\ StartsWithAt(s, <<"}", "}">>, c)
       THEN c + 2 ELSE 0

R_Nowrap(s, i, e) == SubSeq(s, SkipSpace(s, i + 2) + 2, e - 3)

\* \[\[(?:[^|\]]*\|)?([^\]]+)\]\]
M_Link(s, i) ==
    LET b == FindChar(s, "]", i + 2) IN
    IF StartsWithAt(s, <<"[", "[">>, i) /\ b >= i + 3
       /\ StartsWithAt(s, <<"]", "]">>, b)
    THEN b + 2 ELSE 0

\* \1 of M_Link: the text after the first pipe, the whole inside when there
\* is no pipe or nothing follows it
R_Link(s, i, e) ==
    LET inner == SubSeq(s, i + 2, e - 3)
        bar == FindChar(inner, "|", 1)
    IN IF bar = 0 \/ bar = Len(inner) THEN inner ELSE From(inner, bar + 1)

\* <[^>]+>
M_Tag(s, i) ==
    LET g == FindChar(s, ">", i + 1) IN
    IF i <= Len(s) /\ s[i] = "<" /\ g >= i + 2 THEN g + 1 ELSE 0

\* \s+
M_Spaces(s, i) == IF SkipSpace(s, i) > i THEN SkipSpace(s, i) ELSE 0

\* cleaned.replace("'''", "").replace("''", "")
DropQuotes(s) == Replace(Replace(s, <<"'", "'", "'">>, <<>>), <<"'", "'">>, <<>>)

\* ---- _extract_infobox_fields (lines 110-156) ----
\* wikitext.lower().find("{{infobox film"), 0 for -1
InfoboxStart(w) == FindSeq(Lower(w), <<"{", "{", "infobox", " ", "film">>, 1)

\* lines 120-136: walk to the closing braces that bring depth back to 0;
\* the index just past them, 0 when the text ends first
\* (the characters that open or close nothing are stepped over at once)
NextPair(w, i, open, close) ==
    LET hits == {k \in i..(Len(w) - 1) :
                    StartsWithAt(w, open, k) \/ StartsWithAt(w, close, k)}
    IN IF hits = {} THEN 0 ELSE Least(hits)

\* the template ends at the first closing braces
TemplateEnd_FirstClose(w, i, dep) ==
    LET k == FindSeq(w, <<"}", "}">>, i + 2) IN IF k = 0 THEN 0 ELSE k + 2

RECURSIVE TemplateEnd(_, _, _)
TemplateEnd(w, i, dep) ==
    LET k == NextPair(w, i, <<"{", "{">>, <<"}", "}">>) IN
    IF k = 0 THEN 0
    ELSE IF StartsWithAt(w, <<"{", "{">>, k) THEN TemplateEnd(w, k + 2, dep + 1)
    ELSE IF dep - 1 = 0 THEN k + 2 ELSE TemplateEnd(w, k + 2, dep - 1)

\* lines 144-155: fold over the lines of the template; cur is current_key
\* (NoText while it is None)
RECURSIVE FieldLines(_, _, _)
FieldLines(lines, fields, cur) ==
    IF lines = <<>> THEN fields
    ELSE LET stripped == LStrip(Head(lines))
             eq == FindChar(stripped, "=", 1)
         IN
         IF stripped # <<>> /\ Head(stripped) = "|"
         THEN IF eq = 0 THEN FieldLines(Tail(lines), fields, cur)
              ELSE LET key == Lower(Strip(LStripChar(Upto(stripped, eq), "|")))
                       value == Strip(From(stripped, eq + 1))
                   IN FieldLines(Tail(lines), Put(fields, key, value), key)
         ELSE IF cur # NoText /\ cur # <<>> /\ stripped # <<>>
              THEN FieldLines(Tail(lines),
                              Put(fields, cur, fields[cur] \o <<"\n">> \o stripped), cur)
              ELSE FieldLines(Tail(lines), fields, cur)

EmptyFields == [k \in {} |-> <<>>]

\* _extract_infobox_fields (lines 110-156): a template that never closes
\* gives no fields (line 138)
extract_infobox_fields_ToEnd(w) ==
    IF InfoboxStart(w) = 0 THEN EmptyFields
    ELSE FieldLines(SplitLines(From(w, InfoboxStart(w))), EmptyFields, NoText)

extract_infobox_fields(w) ==
    LET start == InfoboxStart(w) IN
    IF start = 0 THEN EmptyFields
    ELSE LET end == TemplateEnd(w, start, 0) IN
         IF end = 0 THEN EmptyFields
         ELSE FieldLines(SplitLines(SubSeq(w, start, end - 1)), EmptyFields, NoText)

\* ---- _clean_value (lines 159-175) ----
clean_value(value) ==
    IF value = <<>> THEN <<>>
    ELSE Strip(SubAll(SubAll(DropQuotes(
             SubAll(SubAll(SubAll(SubAll(SubAll(SubAll(value,
                 M_RefSpan, Nothing),
                 M_RefSelf, Nothing),
                 M_Comment, Nothing),
                 M_Efn, Nothing),
                 M_Nowrap, R_Nowrap),
                 M_Link, R_Link)),
             M_Tag, Nothing),
             M_Spaces, OneSpace))

\* ---- _parse_director (lines 323-364) ----
\* \{\{\s*plainlist\s*\|? with re.IGNORECASE
M_Plainlist(s, i) ==
    LET j == SkipSpace(s, i + 2)
        n == SkipSpace(s, j + 1)
    IN IF StartsWithAt(s, <<"{", "{">>, i) /\ j <= Len(s)
          /\ LowerTok(s[j]) = "plainlist"
       THEN IF n <= Len(s) /\ s[n] = "|" THEN n + 1 ELSE n
       ELSE 0

\* lines 341-347: the non-empty lines, bullets removed
RECURSIVE ListItems(_)
ListItems(lines) ==
    IF lines = <<>> THEN <<>>
    ELSE LET line == Strip(LStripChar(Strip(Head(lines)), "*")) IN
         IF line # <<>> THEN <<line>> \o ListItems(Tail(lines))
         ELSE ListItems(Tail(lines))

\* lines 335-349
DirectorItems(raw) ==
    IF \/ Contains(Lower(raw), <<"{", "{", "plainlist">>)
       \/ FindChar(raw, "\n", 1) # 0
       \/ (Strip(raw) # <<>> /\ Head(Strip(raw)) = "*")
    THEN ListItems(SplitLines(Replace(SubAll(raw, M_Plainlist, Nothing),
                                      <<"}", "}">>, <<>>)))
    ELSE <<raw>>

\* re.split(r"[\/,;]| and ", s)
M_NameSep(s, i) ==
    IF i <= Len(s) /\ s[i] \in {"/", ",", ";"} THEN i + 1
    ELSE IF StartsWithAt(s, <<" ", "and", " ">>, i) THEN i + 3
    ELSE 0

RECURSIVE SplitNames(_)
SplitNames(s) ==
    LET k == Search(s, M_NameSep) IN
    IF k = 0 THEN <<s>>
    ELSE <<Upto(s, k)>> \o SplitNames(From(s, M_NameSep(s, k)))

\* lines 353-361 for one item: the non-empty names of its cleaned text
NamesIn(cleaned) ==
    IF cleaned = <<>> THEN <<>>
    ELSE SelectSeq([i \in 1..Len(SplitNames(cleaned)) |->
                       Strip(SplitNames(cleaned)[i])],
                   LAMBDA n : n # <<>>)

\* lines 352-361
RECURSIVE CleanNames(_)
CleanNames(items) ==
    IF items = <<>> THEN <<>>
    ELSE NamesIn(clean_value(Head(items))) \o CleanNames(Tail(items))

\* list(dict.fromkeys(xs)) (line 364): first occurrences, in order
RECURSIVE DedupeFrom(_, _)
DedupeFrom(xs, acc) ==
    IF xs = <<>> THEN acc
    ELSE IF \E i \in 1..Len(acc) : acc[i] = Head(xs) THEN DedupeFrom(Tail(xs), acc)
    ELSE DedupeFrom(Tail(xs), Append(acc, Head(xs)))

\* every occurrence kept
Dedupe_Keep(xs) == xs

Dedupe(xs) == DedupeFrom(xs, <<>>)

parse_director(fields) ==
    LET NamesOf(raw) ==
            IF raw = <<>> THEN <<>> ELSE Dedupe(CleanNames(DirectorItems(raw)))
    IN NamesOf(OrElse(Get(fields, <<"director">>),
                      Get(fields, <<"directed", " ", "by">>)))

\* ---- _lead_paragraph_wikitext (lines 459-523) ----
\* lines 485-496 and 501-511: from i, with `balance` open pairs, walk to the
\* index just past the pair that closes the last of them, or to the end
RECURSIVE SkipBalanced(_, _, _, _, _)
SkipBalanced(w, i, balance, open, close) ==
    LET k == NextPair(w, i, open, close) IN
    IF ~(i <= Len(w) /\ balance > 0) THEN i
    ELSE IF k = 0 THEN Len(w) + 1
    ELSE IF StartsWithAt(w, open, k) THEN SkipBalanced(w, k + 2, balance + 1, open, close)
    ELSE SkipBalanced(w, k + 2, balance - 1, open, close)

\* number of characters of the lexemes s[a..b]
RECURSIVE CharsBetween(_, _, _)
CharsBetween(s, a, b) ==
    IF a > b THEN 0
    ELSE IF a = b THEN CharLen(s[a])
    ELSE CharsBetween(s, a, (a + b) \div 2) + CharsBetween(s, (a + b) \div 2 + 1, b)

\* line 499-500: ":" in wikitext[i + 2 : i + 12]
ColonInSnippet(w, i) ==
    LET k == FindChar(w, ":", i + 2) IN
    k # 0 /\ k - (i + 2) <= 9 /\ CharsBetween(w, i + 2, k - 1) <= 9

\* lines 467-518: the index where the lead text starts
RECURSIVE LeadStart(_, _)
LeadStart(w, i) ==
    IF i > Len(w) THEN i
    ELSE IF StartsWithAt(w, <<"<", "!", "-", "-">>, i)
         THEN LET end == FindSeq(w, <<"-", "-", ">">>, i) IN
              IF end = 0 THEN i ELSE LeadStart(w, end + 3)
    ELSE IF StartsWithAt(w, <<"{", "|">>, i)
         THEN LET end == FindSeq(w, <<"|", "}">>, i) IN
              IF end = 0 THEN i ELSE LeadStart(w, end + 2)
    ELSE IF StartsWithAt(w, <<"{", "{">>, i)
         THEN LeadStart(w, SkipBalanced(w, i + 2, 1, <<"{", "{">>, <<"}", "}">>))
    ELSE IF StartsWithAt(w, <<"[", "[">>, i) /\ ColonInSnippet(w, i)
         THEN LeadStart(w, SkipBalanced(w, i + 2, 1, <<"[", "[">>, <<"]", "]">>))
    ELSE IF w[i] = "\n" THEN LeadStart(w, i + 1)
    ELSE i

lead_paragraph_wikitext(w) ==
    LET Paragraph(start_text, end_text) ==
            Strip(IF end_text = 0 THEN From(w, start_text)
                  ELSE SubSeq(w, start_text, end_text - 1))
        LeadFrom(start_text) ==
            Paragraph(start_text, FindSeq(w, <<"\n", "\n">>, start_text))
    IN IF w = <<>> THEN <<>> ELSE LeadFrom(LeadStart(w, 1))

\* ---- _first_sentence (lines 526-571) ----
\* lines 536-551
Abbreviations ==
    { <<"mr">>, <<"mrs">>, <<"ms">>, <<"dr">>, <<"prof">>, <<"sr">>, <<"jr">>,
      <<"st">>, <<"vs">>, <<"messrs">>, <<"u", ".", "s">>, <<"u", ".", "k">>,
      <<"u", ".", "s", ".", "a">>, <<"u", ".", "k", ".">> }

\* ([A-Za-z\.]+)$ on cleaned[:i]: the longest run of words and full stops
\* that ends just before i
RECURSIVE WordRunStart(_, _)
WordRunStart(s, i) ==
    IF i > 1 /\ (IsWord(s[i - 1]) \/ s[i - 1] = ".") THEN WordRunStart(s, i - 1) ELSE i

\* lines 559-562
IsAbbrev(s, i) ==
    LET Known(prev_token) ==
            \/ prev_token \in Abbreviations
            \/ Len(prev_token) = 1 /\ IsWord(prev_token[1])
                                   /\ CharLen(prev_token[1]) = 1
    IN Known(Lower(SubSeq(s, WordRunStart(s, i), i - 1)))

\* lines 555-569: index of the punctuation that ends the sentence, 0 if none
SentenceStop(s) ==
    FirstIn({i \in 1..Len(s) : s[i] \in {".", "!", "?"} /\ ~IsAbbrev(s, i)})

first_sentence(text) ==
    LET SentenceTo(cleaned, i) ==
            IF i = 0 THEN Strip(cleaned)
            ELSE Strip(Upto(cleaned,
                            SkipIn(cleaned, {"\"", "'", "]", ")", " "}, i + 1)))
        SentenceOf(cleaned) == SentenceTo(cleaned, SentenceStop(cleaned))
    IN IF text = <<>> THEN <<>>
       ELSE SentenceOf(SubAll(SubAll(SubAll(text, M_RefSpan, Nothing),
                                     M_RefSelf, Nothing), M_Comment, Nothing))

\* ---- _parse_title (lines 285-302) ----
\* ^\s*'{2,5}\s*([^']+?)\s*'{2,5} on the lead: the text between the opening
\* run of two to five quotes and the next run of at least two, else NoText
LeadTitle(lead) ==
    LET a0 == SkipSpace(lead, 1)
        a == SkipIn(lead, {"'"}, a0)
        q == FindChar(lead, "'", a)
    IN IF a - a0 >= 2 /\ a - a0 <= 5 /\ q > a /\ StartsWithAt(lead, <<"'", "'">>, q)
       THEN SubSeq(lead, a, q - 1) ELSE NoText

\* lines 290-294: the first of name, title that cleans to something
FieldTitle(fields) ==
    OrElse(clean_value(Get(fields, <<"name">>)),
           clean_value(Get(fields, <<"title">>)))

parse_title(fields, w) ==
    LET BoldTitle(g) == IF g = NoText THEN <<>> ELSE clean_value(g) IN
    OrElse(FieldTitle(fields), BoldTitle(LeadTitle(lead_paragraph_wikitext(w))))

\* ---- _parse_money_value (lines 178-282) ----
\* Characters outside ASCII are written as named lexemes: EN_DASH and EM_DASH
\* are U+2013 and U+2014, NBSP is U+00A0, EURO_SIGN, POUND_SIGN and YEN_SIGN
\* are the currency signs.
\* A quantity is a fraction <<numerator, denominator>> of naturals.
\* round(): to the nearest integer, a tie to the even one
Round(q) ==
    LET n == q[1] \div q[2]
        r == q[1] % q[2]
    IN IF 2 * r < q[2] THEN n
       ELSE IF 2 * r > q[2] THEN n + 1
       ELSE IF n % 2 = 0 THEN n ELSE n + 1

RECURSIVE Pow10(_)
Pow10(d) == IF d = 0 THEN 1 ELSE 10 * Pow10(d - 1)

\* sum(numbers) / len(numbers) for a sequence of IntV
RECURSIVE SumOf(_)
SumOf(numbers) == IF numbers = <<>> THEN 0 ELSE Head(numbers).v + SumOf(Tail(numbers))

Mean(numbers) == IntV(Round(<<SumOf(numbers), Len(numbers)>>))

\* (million|billion|m|bn) with re.IGNORECASE, matched at the start of a
\* word: the alternative that matches, NoText when none does
UnitAt(s, i) ==
    IF i > Len(s) THEN NoText
    ELSE LET l == LowerTok(s[i]) IN
         CASE l = "million" -> <<"million">>
           [] l = "billion" -> <<"billion">>
           [] l \in {"m", "min", "minutes", "metacritic", "may"} -> <<"m">>
           [] l = "bn" -> <<"bn">>
           [] OTHER -> NoText

\* the same where the unit has to be a whole word
WholeUnitAt(s, i) ==
    IF i <= Len(s) /\ LowerTok(s[i]) \in {"million", "billion", "m", "bn"}
    THEN <<LowerTok(s[i])>> ELSE NoText

\* ([0-9][\d,]*)(?:\.(\d+))? at i: the integer part, the decimal part
\* (<<>> when absent) and the index just past the number
NumAt(s, i) ==
    LET Parts(e, f) ==
            [int |-> SubSeq(s, i, e - 1),
             dec |-> IF f > e + 1 THEN SubSeq(s, e + 1, f - 1) ELSE <<>>,
             end |-> IF f > e + 1 THEN f ELSE e]
        Decimals(e) ==
            Parts(e, IF e <= Len(s) /\ s[e] = "." THEN SkipIn(s, Digits, e + 1)
                     ELSE e)
    IN Decimals(SkipIn(s, Digits \cup {","}, i))

\* _to_number (lines 235-249)
to_number(int_part, dec_part, unit, fallback_unit) ==
    LET integer_part == SelectSeq(int_part, LAMBDA c : c # ",")
        base == <<DigitsToInt(integer_part \o dec_part, 0), Pow10(Len(dec_part))>>
        unit_lower == IF unit # NoText THEN unit
                      ELSE IF fallback_unit # NoText THEN fallback_unit ELSE <<>>
        multiplier == IF unit_lower \in {<<"million">>, <<"m">>} THEN 1000000
                      ELSE IF unit_lower \in {<<"billion">>, <<"bn">>} THEN 1000000000
                      ELSE 1
    IN IF multiplier % base[2] = 0 THEN <<base[1] * (multiplier \div base[2]), 1>>
       ELSE <<base[1] * multiplier, base[2]>>

\* \{\{\s*US\$\s*\|([^|}]+) with re.IGNORECASE: index just past the match
M_UsdTemplate(s, i) ==
    LET j == SkipSpace(s, i + 2)
        b == SkipSpace(s, j + 2)
        e == UntilIn(s, {"|", "}"}, b + 1)
    IN IF /\ StartsWithAt(s, <<"{", "{">>, i)
          /\ j < Len(s) /\ LowerTok(s[j]) = "us" /\ s[j + 1] = "$"
          /\ b <= Len(s) /\ s[b] = "|" /\ e > b + 1
       THEN e ELSE 0

\* group 1 of the match of M_UsdTemplate at i
G_UsdTemplate(s, i) ==
    SubSeq(s, SkipSpace(s, SkipSpace(s, i + 2) + 2) + 1, M_UsdTemplate(s, i) - 1)

\* re.findall: the texts G(s, i) of the successive matches from index i on
FindAll(s, M(_, _), G(_, _)) ==
    LET starts == {k \in 1..Len(s) : M(s, k) > k}
        f[i \in 1..(Len(s) + 1)] ==
            LET rest == {k \in starts : k >= i} IN
            IF rest = {} THEN <<>>
            ELSE <<G(s, Least(rest))>> \o f[M(s, Least(rest))]
    IN f[1]

\* (?:\[\[(?:United States dollar|US dollar)[^\]]*\]\]|US\$|USD)
M_UsdMarker(s, k) ==
    LET c == FindChar(s, "]", k) IN
    IF k > Len(s) THEN 0
    ELSE IF LowerTok(s[k]) = "usd" THEN k + 1
    ELSE IF LowerTok(s[k]) = "us" /\ k < Len(s) /\ s[k + 1] = "$" THEN k + 2
    ELSE IF /\ \/ StartsWithAt(Lower(s), <<"[", "[", "us", " ", "dollar">>, k)
               \/ StartsWithAt(Lower(s), <<"[", "[", "united", " ", "states", " ",
                                           "dollar">>, k)
            /\ c # 0 /\ StartsWithAt(s, <<"]", "]">>, c)
         THEN c + 2
    ELSE 0

\* ^\s*\*[^\n]*(?:...)[^\n]* with re.IGNORECASE | re.MULTILINE: the bullet
\* is the first thing on its line, the marker the last one that starts on
\* that line, and the match runs to the end of the line the marker ends on
M_UsdItem(s, i) ==
    LET ItemEnd(j, ks) ==
            IF (i = 1 \/ s[i - 1] = "\n") /\ j <= Len(s) /\ s[j] = "*" /\ ks # {}
            THEN UntilIn(s, {"\n"}, M_UsdMarker(s, Greatest(ks)))
            ELSE 0
        Bullet(j) ==
            ItemEnd(j, {k \in (j + 1)..(UntilIn(s, {"\n"}, j) - 1) :
                           M_UsdMarker(s, k) # 0})
    IN Bullet(SkipSpace(s, i))

\* item.lstrip().lstrip("*").strip() of the match of M_UsdItem at i
G_UsdItem(s, i) == Strip(LStripChar(LStrip(SubSeq(s, i, M_UsdItem(s, i) - 1)), "*"))

\* the pattern _non_usd_re (lines 211-217), for the currencies the lexemes
\* can spell: a sign, a link to Euro, a template named after a code or sign
CurrencySigns == {"EURO_SIGN", "POUND_SIGN", "YEN_SIGN"}

M_NonUsd(s, i) ==
    IF i > Len(s) THEN 0
    ELSE IF s[i] \in CurrencySigns THEN i + 1
    ELSE IF StartsWithAt(s, <<"[", "[">>, i) /\ i + 2 <= Len(s)
            /\ LowerTok(s[i + 2]) = "euro"
         THEN LET c == FindChar(s, "]", i + 3) IN
              IF c # 0 /\ StartsWithAt(s, <<"]", "]">>, c) THEN c + 2 ELSE 0
    ELSE IF StartsWithAt(s, <<"{", "{">>, i)
         THEN LET j == SkipSpace(s, i + 2)
                  c == FindChar(s, "}", j + 1)
              IN IF /\ j <= Len(s)
                    /\ (LowerTok(s[j]) = "euro" \/ s[j] \in CurrencySigns)
                    /\ c # 0 /\ StartsWithAt(s, <<"}", "}">>, c)
                 THEN c + 2 ELSE 0
    ELSE 0

\* \$\s*[0-9][\d,.]*(?:\s*(?:million|billion|m|bn))? with re.IGNORECASE
M_Dollar(s, i) ==
    LET j == SkipSpace(s, i + 1)
        e == SkipIn(s, Digits \cup {",", "."}, j)
        u == SkipSpace(s, e)
    IN IF i <= Len(s) /\ s[i] = "$" /\ j <= Len(s) /\ s[j] \in Digits
       THEN IF UnitAt(s, u) # NoText THEN u + 1 ELSE e
       ELSE 0

\* group(0) of the match of M_Dollar at i; a unit that is the beginning of
\* a longer word is cut out of it
G_Dollar(s, i) ==
    LET Amount(e, u) ==
            IF u # NoText /\ s[e - 1] \notin Digits \cup {",", "."}
            THEN SubSeq(s, i, e - 2) \o u
            ELSE SubSeq(s, i, e - 1)
        AmountTo(e) == Amount(e, UnitAt(s, e - 1))
    IN AmountTo(M_Dollar(s, i))

\* \{\{\s*nbsp\s*\}\} and \{\{\s*nbsp\|[^{}]*\}\} with re.IGNORECASE
M_Nbsp(s, i) ==
    LET j == SkipSpace(s, i + 2)
        k == SkipSpace(s, j + 1)
        c == FindIn(s, {"{", "}"}, j + 2)
    IN IF ~(StartsWithAt(s, <<"{", "{">>, i) /\ j <= Len(s) /\ LowerTok(s[j]) = "nbsp")
       THEN 0
       ELSE IF StartsWithAt(s, <<"}", "}">>, k) THEN k + 2
       ELSE IF j < Len(s) /\ s[j + 1] = "|" /\ c # 0 /\ StartsWithAt(s, <<"}", "}">>, c)
            THEN c + 2
       ELSE 0

\* \{\{\s*efn[^{}]*\}\} with re.IGNORECASE
M_EfnFlat(s, i) ==
    LET j == SkipSpace(s, i + 2)
        c == FindIn(s, {"{", "}"}, j + 1)
    IN IF /\ StartsWithAt(s, <<"{", "{">>, i)
          /\ j <= Len(s) /\ LowerTok(s[j]) = "efn"
          /\ c # 0 /\ StartsWithAt(s, <<"}", "}">>, c)
       THEN c + 2 ELSE 0

\* lines 228-229: the dashes become "-" and the no-break space a blank
PlainDashes(c) ==
    [i \in 1..Len(c) |->
        IF c[i] \in {"EN_DASH", "EM_DASH"} THEN "-"
        ELSE IF c[i] = "NBSP" THEN " " ELSE c[i]]

\* lines 226-233
MoneyCleaned(text) ==
    Strip(SubAll(SubAll(SubAll(
              Replace(PlainDashes(SubAll(SubAll(text,
                          M_RefSpan, Nothing),
                          M_RefSelf, Nothing)),
                      <<"&", "nbsp", ";">>, <<" ">>),
              M_Nbsp, OneSpace),
              M_EfnFlat, Nothing),
              M_Spaces, OneSpace))

\* the second half of the range pattern: the dash expected at d and the
\* number and unit after it
RangeTail(s, n1, unit1, d) ==
    LET Groups(j2, n2) ==
            IF d <= Len(s) /\ s[d] = "-" /\ j2 <= Len(s) /\ s[j2] \in Digits
            THEN [ok |-> TRUE, int1 |-> n1.int, dec1 |-> n1.dec, unit1 |-> unit1,
                  int2 |-> n2.int, dec2 |-> n2.dec,
                  unit2 |-> UnitAt(s, SkipSpace(s, n2.end))]
            ELSE [ok |-> FALSE]
        Second(j2) == Groups(j2, NumAt(s, j2))
    IN Second(SkipSpace(s, d + 1))

\* the first half: the number that starts at j and the unit after it
RangeHead(s, j) ==
    LET Dash(n1, k, unit1) ==
            RangeTail(s, n1, unit1, IF unit1 # NoText THEN SkipSpace(s, k + 1) ELSE k)
        Unit1(n1, k) == Dash(n1, k, WholeUnitAt(s, k))
        First(n1) == Unit1(n1, SkipSpace(s, n1.end))
    IN IF j <= Len(s) /\ s[j] \in Digits THEN First(NumAt(s, j))
       ELSE [ok |-> FALSE]

\* the range pattern (lines 252-256) matched from i: its groups, or
\* [ok |-> FALSE]
RangeAt(s, i) ==
    RangeHead(s, SkipSpace(s, IF i <= Len(s) /\ s[i] \in {"$", "POUND_SIGN", "EURO_SIGN"}
                              THEN i + 1 ELSE i))

M_Range(s, i) ==
    LET Matched(m) == IF m.ok THEN i + 1 ELSE 0 IN Matched(RangeAt(s, i))

\* (variant in which each endpoint counts in its own unit only)
RangeValue_OwnUnit(m) ==
    LET Middle(v1, v2) ==
            IntV(Round(<<v1[1] * v2[2] + v2[1] * v1[2], 2 * v1[2] * v2[2]>>))
    IN Middle(to_number(m.int1, m.dec1, m.unit1, NoText),
              to_number(m.int2, m.dec2, m.unit2, NoText))

\* lines 257-267
RangeValue(m) ==
    LET common_unit == IF m.unit1 # NoText THEN m.unit1 ELSE m.unit2
        Middle(v1, v2) ==
            IntV(Round(<<v1[1] * v2[2] + v2[1] * v1[2], 2 * v1[2] * v2[2]>>))
    IN Middle(to_number(m.int1, m.dec1, m.unit1,
                        IF "," \notin {m.int1[k] : k \in 1..Len(m.int1)}
                        THEN common_unit ELSE NoText),
              to_number(m.int2, m.dec2, m.unit2,
                        IF "," \notin {m.int2[k] : k \in 1..Len(m.int2)}
                        THEN common_unit ELSE NoText))

\* lines 270-282
SingleValue(s) ==
    LET Valued(n, unit) == IntV(Round(to_number(n.int, n.dec, unit, unit)))
        Number(n) == Valued(n, UnitAt(s, SkipSpace(s, n.end)))
        NumberFrom(j) == IF j = 0 THEN NoneV ELSE Number(NumAt(s, j))
    IN NumberFrom(FindIn(s, Digits, 1))

RECURSIVE parse_money_value(_)
RECURSIVE MoneyEach(_)
\* [_parse_money_value(v) for v in texts], the None results dropped
MoneyEach(texts) ==
    LET Kept(n) == IF n = NoneV THEN <<>> ELSE <<n>> IN
    IF texts = <<>> THEN <<>>
    ELSE Kept(parse_money_value(Head(texts))) \o MoneyEach(Tail(texts))

parse_money_value(text) ==
    LET Plain(cleaned, r) ==
            IF r # 0 THEN RangeValue(RangeAt(cleaned, r)) ELSE SingleValue(cleaned)
        Dollars(d) ==
            IF d = 0 THEN NoneV ELSE parse_money_value(G_Dollar(text, d))
        Unmarked(cleaned) ==
            IF Search(text, M_NonUsd) # 0 THEN Dollars(Search(text, M_Dollar))
            ELSE Plain(cleaned, Search(cleaned, M_Range))
        Listed(usd, items) ==
            IF usd # <<>> THEN Mean(usd)
            ELSE IF items # <<>> THEN Mean(items)
            ELSE Unmarked(MoneyCleaned(text))
    IN IF text = <<>> THEN NoneV
       ELSE Listed(MoneyEach(FindAll(text, M_UsdTemplate,
                                     LAMBDA s, i : Strip(G_UsdTemplate(s, i)))),
                   MoneyEach(FindAll(text, M_UsdItem, G_UsdItem)))

\* _parse_budget (lines 305-311)
parse_budget(fields) ==
    IF HasKey(fields, <<"budget">>) THEN parse_money_value(fields[<<"budget">>])
    ELSE NoneV

\* _parse_box_office (lines 314-320): the first of the keys that parses
RECURSIVE FirstAmount(_, _)
FirstAmount(fields, keys) ==
    LET OrNext(n) == IF n # NoneV THEN n ELSE FirstAmount(fields, Tail(keys)) IN
    IF keys = <<>> THEN NoneV
    ELSE IF HasKey(fields, Head(keys))
         THEN OrNext(parse_money_value(fields[Head(keys)]))
    ELSE FirstAmount(fields, Tail(keys))

parse_box_office(fields) ==
    FirstAmount(fields, << <<"box", " ", "office">>, <<"box", "_", "office">>,
                           <<"gross">> >>)

\* ---- _normalize_date_from_template (lines 383-410) ----
\* MONTHS (lines 367-380), for the month names among the words
MONTHS == [m \in {"may", "june"} |-> IF m = "may" THEN <<"0", "5">> ELSE <<"0", "6">>]

\* the template names of line 389 that the words can spell
DateTemplateNames ==
    { <<"film", " ", "date">>, <<"film", " ", "release">>,
      <<"release", " ", "date">>, <<"start", " ", "date">> }

\* \{\{(?:film date|...|start date)[^}]*\}\} with re.IGNORECASE
M_DateTemplate(s, i) ==
    LET c == FindChar(s, "}", i + 5) IN
    IF /\ StartsWithAt(s, <<"{", "{">>, i)
       /\ \E n \in DateTemplateNames : StartsWithAt(Lower(s), n, i + 2)
       /\ c # 0 /\ StartsWithAt(s, <<"}", "}">>, c)
    THEN c + 2 ELSE 0

\* s.strip("{}")
RECURSIVE StripBraces(_)
StripBraces(s) ==
    IF s # <<>> /\ Head(s) \in {"{", "}"} THEN StripBraces(Tail(s))
    ELSE IF s # <<>> /\ s[Len(s)] \in {"{", "}"} THEN StripBraces(SubSeq(s, 1, Len(s) - 1))
    ELSE s

\* s.split("|")
RECURSIVE SplitBars(_)
SplitBars(s) ==
    LET k == FindChar(s, "|", 1) IN
    IF k = 0 THEN <<s>> ELSE <<Upto(s, k)>> \o SplitBars(From(s, k + 1))

\* p.isdigit()
IsDigits(p) == p # <<>> /\ \A k \in 1..Len(p) : p[k] \in Digits

\* lines 396-404: the numeric parts, month names as their numbers
RECURSIVE DateNums(_)
DateNums(parts) ==
    IF parts = <<>> THEN <<>>
    ELSE LET p == Strip(Head(parts)) IN
         IF Head(parts) = <<>> THEN DateNums(Tail(parts))
         ELSE IF IsDigits(p) THEN <<p>> \o DateNums(Tail(parts))
         ELSE IF Len(p) = 1 /\ LowerTok(p[1]) \in DOMAIN MONTHS
              THEN <<MONTHS[LowerTok(p[1])]>> \o DateNums(Tail(parts))
         ELSE DateNums(Tail(parts))

\* s.zfill(2)
ZFill2(s) == IF Len(s) = 0 THEN <<"0", "0">> ELSE IF Len(s) = 1 THEN <<"0">> \o s ELSE s

normalize_date_from_template(text) ==
    LET Written(candidate, nums) ==
            IF Len(nums) >= 2
            THEN nums[1] \o <<"-">> \o ZFill2(nums[2]) \o <<"-">>
                 \o (IF Len(nums) >= 3 THEN ZFill2(nums[3]) ELSE <<"0", "1">>)
            ELSE clean_value(candidate)
        Normalized(candidate) ==
            Written(candidate, DateNums(SplitBars(StripBraces(candidate))))
        CandidateAt(m) ==
            Normalized(IF m # 0 THEN SubSeq(text, m, M_DateTemplate(text, m) - 1)
                       ELSE text)
    IN IF text = <<>> THEN <<>> ELSE CandidateAt(Search(text, M_DateTemplate))

\* ---- _parse_release_date (lines 413-438) ----
\* \d{4}-\d{2}-\d{2} at i
M_IsoDate(s, i) ==
    IF /\ i + 9 <= Len(s)
       /\ \A k \in {0, 1, 2, 3, 5, 6, 8, 9} : s[i + k] \in Digits
       /\ s[i + 4] = "-" /\ s[i + 7] = "-"
    THEN i + 10 ELSE 0

\* (variant that lets every text through)
IsIsoShape_Any(parsed) == TRUE

\* re.match(r"\d{4}-\d{2}-\d{2}$", parsed)
IsIsoShape(parsed) == Len(parsed) = 10 /\ M_IsoDate(parsed, 1) # 0

\* lines 415-419: the first of the keys with a value that normalizes to
\* something; NoText when there is none
RECURSIVE FieldDate(_, _)
FieldDate(fields, keys) ==
    LET OrNextKey(parsed) ==
            IF parsed # <<>> THEN parsed ELSE FieldDate(fields, Tail(keys))
    IN IF keys = <<>> THEN NoText
       ELSE OrNextKey(normalize_date_from_template(Get(fields, Head(keys))))

\* (January|...|December)\s+\d{1,2},\s+\d{4}: the month names among the words
MonthNumber == [m \in {"May", "June"} |-> IF m = "May" THEN 5 ELSE 6]

\* the groups of the prose date that starts at i, or [ok |-> FALSE]
ProseDateAt(s, i) ==
    LET d == SkipSpace(s, i + 1)
        c == SkipIn(s, Digits, d)
        y == SkipSpace(s, c + 1)
    IN IF /\ i <= Len(s) /\ s[i] \in DOMAIN MonthNumber
          /\ d > i + 1 /\ c - d \in {1, 2}
          /\ c <= Len(s) /\ s[c] = ","
          /\ y > c + 1 /\ y + 3 <= Len(s)
          /\ \A k \in 0..3 : s[y + k] \in Digits
       THEN [ok |-> TRUE, month |-> MonthNumber[s[i]], day |-> SubSeq(s, d, c - 1),
             year |-> SubSeq(s, y, y + 3)]
       ELSE [ok |-> FALSE]

M_ProseDate(s, i) ==
    LET Dated(m) == IF m.ok THEN i + 1 ELSE 0 IN Dated(ProseDateAt(s, i))

DaysIn(month, year) ==
    IF month \in {4, 6, 9, 11} THEN 30
    ELSE IF month # 2 THEN 31
    ELSE IF year % 4 = 0 /\ (year % 100 # 0 \/ year % 400 = 0) THEN 29 ELSE 28

\* datetime.strptime(text, "%B %d, %Y").date().isoformat(), None when
\* strptime raises (lines 426-429)
ProseDateIso(m) ==
    LET day == DigitsToInt(m.day, 0)
        year == DigitsToInt(m.year, 0)
    IN IF day >= 1 /\ day <= DaysIn(m.month, year) /\ year >= 1
       THEN StrV(m.year \o <<"-">> \o ZFill2(IntToDigits(m.month)) \o <<"-">>
                 \o ZFill2(IntToDigits(day)))
       ELSE NoneV

\* \b(\d{4})\b at i
IsWordChar(t) == IsWord(t) \/ t \in Digits \/ t = "_"

\* (variant without the \b on both sides)
M_Year_Anywhere(s, i) ==
    IF i + 3 <= Len(s) /\ \A k \in 0..3 : s[i + k] \in Digits THEN i + 4 ELSE 0

M_Year(s, i) ==
    IF /\ i + 3 <= Len(s) /\ \A k \in 0..3 : s[i + k] \in Digits
       /\ (i = 1 \/ ~IsWordChar(s[i - 1]))
       /\ (i + 4 > Len(s) \/ ~IsWordChar(s[i + 4]))
    THEN i + 4 ELSE 0

parse_release_date(fields, w) ==
    LET YearOnly(yr) ==
            IF yr # 0
            THEN StrV(SubSeq(w, yr, yr + 3) \o <<"-", "0", "1", "-", "0", "1">>)
            ELSE NoneV
        IsoLike(iso) ==
            IF iso # 0 THEN StrV(SubSeq(w, iso, iso + 9))
            ELSE YearOnly(Search(w, M_Year))
        InProse(p) ==
            IF p # 0 THEN ProseDateIso(ProseDateAt(w, p))
            ELSE IsoLike(Search(w, M_IsoDate))
        InField(parsed) ==
            IF parsed # NoText
            THEN (IF IsIsoShape(parsed) THEN StrV(parsed) ELSE NoneV)
            ELSE InProse(Search(w, M_ProseDate))
    IN InField(FieldDate(fields, << <<"release", " ", "date">>, <<"released">>,
                                    <<"release", "_", "date">> >>))

\* ---- _parse_running_time (lines 441-456) ----
\* (\d{2,3})\s*(?:minutes|min) with re.IGNORECASE at i: the number of digits
\* group 1 takes, 0 when there is no match
MinutesDigits(s, i) ==
    LET after(k) == /\ \A x \in 0..(k - 1) : i + x <= Len(s) /\ s[i + x] \in Digits
                    /\ SkipSpace(s, i + k) <= Len(s)
                    /\ LowerTok(s[SkipSpace(s, i + k)]) \in {"min", "minutes"}
    IN IF after(3) THEN 3 ELSE IF after(2) THEN 2 ELSE 0

M_Minutes(s, i) ==
    LET PastDigits(n) == IF n # 0 THEN i + n ELSE 0 IN
    PastDigits(MinutesDigits(s, i))

\* lines 445-449: the value of the first key present
RECURSIVE FirstPresent(_, _)
FirstPresent(fields, keys) ==
    IF keys = <<>> THEN <<>>
    ELSE IF HasKey(fields, Head(keys)) THEN fields[Head(keys)]
    ELSE FirstPresent(fields, Tail(keys))

\* lines 450-456 for one source: the minutes, NoneV without a match
MinutesIn(text) ==
    LET MinutesAt(m) ==
            IF m = 0 THEN NoneV
            ELSE IntV(DigitsToInt(SubSeq(text, m, M_Minutes(text, m) - 1), 0))
    IN MinutesAt(Search(text, M_Minutes))

parse_running_time(fields, w) ==
    LET OrInText(n) == IF n # NoneV THEN n ELSE MinutesIn(w) IN
    OrInText(MinutesIn(FirstPresent(fields, << <<"running", " ", "time">>,
                                               <<"running", "_", "time">>,
                                               <<"runtime">> >>)))

\* ---- _extract_genres_from_first_sentence (lines 574-652) ----
\* a word that starts with "film" / that is or ends with "film"
StartsFilm(t) == LowerTok(t) \in {"film", "films"}

IsFilm(t) == LowerTok(t) = "film"

\* _first_unlinked_film (lines 585-606): index of the first word "film"
\* outside [[...]], 0 when there is none
RECURSIVE first_unlinked_film(_, _, _)
first_unlinked_film(s, i, in_link) ==
    LET hits == {k \in i..Len(s) :
                    \/ StartsWithAt(s, <<"[", "[">>, k)
                    \/ StartsWithAt(s, <<"]", "]">>, k)
                    \/ IsFilm(s[k])}
        k == Least(hits)
    IN IF hits = {} THEN 0
       ELSE IF StartsWithAt(s, <<"[", "[">>, k) THEN first_unlinked_film(s, k + 2, in_link + 1)
       ELSE IF StartsWithAt(s, <<"]", "]">>, k)
            THEN IF in_link > 0 THEN first_unlinked_film(s, k + 2, in_link - 1)
                 ELSE first_unlinked_film(s, k + 1, in_link)
       ELSE IF in_link = 0 THEN k
       ELSE first_unlinked_film(s, k + 1, in_link)

\* " film" in text_lower, as the index of the blank; 0 when absent
FindSpaceFilm(s) ==
    LET hits == {k \in 1..(Len(s) - 1) : s[k] = " " /\ StartsFilm(s[k + 1])} IN
    IF hits = {} THEN 0 ELSE Least(hits)

\* the pivot without the fallback to " film" anywhere
FilmPos_Standalone(sentence) == first_unlinked_film(sentence, 1, 0)

\* lines 610-613
FilmPos(sentence) ==
    LET OrAnyFilm(k) == IF k # 0 THEN k ELSE FindSpaceFilm(sentence) IN
    OrAnyFilm(first_unlinked_film(sentence, 1, 0))

\* \[\[([^\]|#]+)(?:#[^\]|]*)?(?:\|([^\]]+))?\]\] at i: the groups and the
\* index just past the match, or [ok |-> FALSE]
GenreLinkAt(s, i) ==
    LET LinkGroups(t, a, l) ==
            IF /\ StartsWithAt(s, <<"[", "[">>, i) /\ t > i + 2
               /\ (l = a \/ l > a + 1)
               /\ StartsWithAt(s, <<"]", "]">>, l)
            THEN [ok |-> TRUE, target |-> SubSeq(s, i + 2, t - 1),
                  label |-> IF l = a THEN NoText ELSE SubSeq(s, a + 1, l - 1),
                  end |-> l + 2]
            ELSE [ok |-> FALSE]
        LabelPart(t, a) ==
            LinkGroups(t, a, IF a <= Len(s) /\ s[a] = "|"
                             THEN UntilIn(s, {"]"}, a + 1) ELSE a)
        AnchorPart(t) ==
            LabelPart(t, IF t <= Len(s) /\ s[t] = "#"
                         THEN UntilIn(s, {"]", "|"}, t + 1) ELSE t)
    IN AnchorPart(UntilIn(s, {"]", "|", "#"}, i + 2))

M_GenreLink(s, i) ==
    LET LinkEnd(m) == IF m.ok THEN m.end ELSE 0 IN LinkEnd(GenreLinkAt(s, i))

\* re.sub(r"^[\"“”'’]+|[\"“”'’]+$", "", label)
StripQuoteMarks(s) ==
    LET keep == {k \in 1..Len(s) : s[k] \notin {"\"", "'"}} IN
    IF keep = {} THEN <<>> ELSE SubSeq(s, Least(keep), Greatest(keep))

\* lines 616-620
LinkLabel(m) ==
    LET label == IF m.label # NoText THEN Strip(m.label) ELSE Strip(m.target) IN
    StripQuoteMarks(Strip(SubAll(DropQuotes(label), M_Spaces, OneSpace)))

\* lines 624-634
LooksLikeGenre(label, target) ==
    \/ \E k \in 1..Len(label) : StartsLower(label[k]) /\ (k = 1 \/ IsSpace(label[k - 1]))
    \/ Contains(Lower(target), <<"(", "genre">>)
    \/ FindSpaceFilm(target) # 0
    \/ IsFilm(label[Len(label)])

\* lines 640-642
CarriesMarker(label, target) ==
    \/ \E k \in 1..Len(label) : StartsFilm(label[k])
    \/ FindSpaceFilm(target) # 0
    \/ Contains(Lower(target), <<"(", "genre">>)

\* lines 644-646
NormalizedGenre(label) ==
    LET l == Lower(label) IN
    IF Len(l) >= 2 /\ l[Len(l)] = "film" /\ l[Len(l) - 1] = " "
    THEN Strip(SubSeq(l, 1, Len(l) - 2)) ELSE l

\* lines 615-650: fold over the links of the sentence from index i on
RECURSIVE GenresFrom(_, _, _, _)
GenresFrom(sentence, i, film_pos, genres) ==
    LET Judged(k, m, target, label, normalized) ==
            GenresFrom(sentence, m.end, film_pos,
                IF \/ label = <<>>
                   \/ ~LooksLikeGenre(label, target)
                   \/ film_pos # 0 /\ k > film_pos /\ ~CarriesMarker(label, target)
                   \/ \E x \in 1..Len(genres) : genres[x] = normalized
                THEN genres ELSE Append(genres, normalized))
        Labelled(k, m, label) ==
            Judged(k, m, Strip(m.target), label, NormalizedGenre(label))
        AtLink(k) ==
            LET Matched(m) == Labelled(k, m, LinkLabel(m)) IN
            Matched(GenreLinkAt(sentence, k))
        NextLink(k) == IF k = 0 THEN genres ELSE AtLink(k)
    IN NextLink(FirstIn({k \in i..Len(sentence) : M_GenreLink(sentence, k) # 0}))

\* _parse_genre (lines 655-658)
parse_genre(w) ==
    LET GenresOf(sentence) ==
            IF sentence = <<>> THEN <<>>
            ELSE GenresFrom(sentence, 1, FilmPos(sentence), <<>>)
    IN GenresOf(first_sentence(lead_paragraph_wikitext(w)))

\* ---- _extract_rt_score, _extract_metacritic_score (lines 744-822) ----
\* The windows of lines 761 and 778 and the distance .{0,800} reach at least
\* 300 characters to either side of the mention; a text is no longer than
\* that (MaxDocChars), so each of them spans the whole text.
MaxDocChars == 300

\* ([0-9]{1,3}) at i: how many digits the group takes, 0 when none
Digits3(s, i) == IF SkipIn(s, Digits, i) - i > 3 THEN 3 ELSE SkipIn(s, Digits, i) - i

\* min(100, int(group)) for the k digits at i
Score(s, i, k) ==
    LET n == DigitsToInt(SubSeq(s, i, i + k - 1), 0) IN
    IntV(IF n > 100 THEN 100 ELSE n)

\* the names RT data / Rotten Tomatoes data start at j: index just past, or 0
RtDataName(s, j) ==
    IF StartsWithAt(Lower(s), <<"rt", " ", "data">>, j) THEN j + 3
    ELSE IF StartsWithAt(Lower(s), <<"rotten", " ", "tomatoes", " ", "data">>, j) THEN j + 5
    ELSE 0

\* \{\{(?:RT data|Rotten Tomatoes data)\|score with re.IGNORECASE
M_RtDataBare(s, i) ==
    LET n == RtDataName(s, i + 2) IN
    IF StartsWithAt(s, <<"{", "{">>, i) /\ n # 0
       /\ StartsWithAt(Lower(s), <<"|", "score">>, n)
    THEN n + 2 ELSE 0

\* \{\{\s*(?:RT data|Rotten Tomatoes data)\s*\|\s*score\s*=\s*([0-9]{1,3}):
\* index of the digits, 0 without a match
RtDataDigits(s, i) ==
    LET n == RtDataName(s, SkipSpace(s, i + 2))
        b == SkipSpace(s, n)
        sc == SkipSpace(s, b + 1)
        eq == SkipSpace(s, sc + 1)
        d == SkipSpace(s, eq + 1)
    IN IF /\ StartsWithAt(s, <<"{", "{">>, i) /\ n # 0
          /\ b <= Len(s) /\ s[b] = "|"
          /\ sc <= Len(s) /\ LowerTok(s[sc]) = "score"
          /\ eq <= Len(s) /\ s[eq] = "="
          /\ Digits3(s, d) > 0
       THEN d ELSE 0

\* \{\{\s*Rotten Tomatoes prose\|\s*([0-9]{1,3}): index of the digits
RtProseDigits(s, i) ==
    LET j == SkipSpace(s, i + 2)
        d == SkipSpace(s, j + 6)
    IN IF /\ StartsWithAt(s, <<"{", "{">>, i)
          /\ StartsWithAt(Lower(s), <<"rotten", " ", "tomatoes", " ", "prose", "|">>, j)
          /\ Digits3(s, d) > 0
       THEN d ELSE 0

\* (\d{1,3})\s*X at i, X one lexeme of `after`: the number of digits the
\* group takes (the most that lets the rest match), 0 without a match
DigitsBefore(s, i, after) ==
    LET fits(k) == /\ i + k - 1 <= Len(s)
                   /\ \A x \in 0..(k - 1) : s[i + x] \in Digits
                   /\ SkipSpace(s, i + k) <= Len(s)
                   /\ LowerTok(s[SkipSpace(s, i + k)]) \in after
    IN IF fits(3) THEN 3 ELSE IF fits(2) THEN 2 ELSE IF fits(1) THEN 1 ELSE 0

\* (\d{1,3})\s*%
M_Pct(s, i) == DigitsBefore(s, i, {"%"})

\* (\d{1,3})\s*(?:percent|per\s*cent) with re.IGNORECASE, as far as the words
\* spell it
M_PctWord(s, i) == DigitsBefore(s, i, {"percent"})

\* \{\{\s*(?:percent|percentage)\s*\|\s*([0-9]{1,3}): index of the digits
PctTemplateDigits(s, i) ==
    LET j == SkipSpace(s, i + 2)
        b == SkipSpace(s, j + 1)
        d == SkipSpace(s, b + 1)
    IN IF /\ StartsWithAt(s, <<"{", "{">>, i)
          /\ j <= Len(s) /\ LowerTok(s[j]) = "percent"
          /\ b <= Len(s) /\ s[b] = "|" /\ Digits3(s, d) > 0
       THEN d ELSE 0

\* Score of the leftmost match of a pattern given by the index of its digits
\* (D) or by the number of digits taken at its start (K); NoneV without one
ScoreByDigits(s, D(_, _)) ==
    LET m == Search(s, D) IN
    IF m = 0 THEN NoneV ELSE Score(s, D(s, m), Digits3(s, D(s, m)))

ScoreByCount(s, K(_, _)) ==
    LET m == Search(s, K) IN
    IF m = 0 THEN NoneV ELSE Score(s, m, K(s, m))

\* first of the values that is not NoneV
RECURSIVE FirstOf(_)
FirstOf(vals) ==
    IF vals = <<>> THEN NoneV
    ELSE IF Head(vals) # NoneV THEN Head(vals) ELSE FirstOf(Tail(vals))

HasRottenTomatoes(s) == Contains(Lower(s), <<"rotten", " ", "tomatoes">>)

\* lines 772-774
RtProse(w) ==
    SubAll(SubAll(SubAll(w, M_RefSpan, Nothing), M_Link, R_Link), M_Comment, Nothing)

\* Rotten Tomatoes.{0,800}?(\d{1,3})\s*% (line 783): the first percentage
\* that starts after a mention
M_RtThenPct(s, i) ==
    IF StartsWithAt(Lower(s), <<"rotten", " ", "tomatoes">>, i)
       /\ \E p \in (i + 3)..Len(s) : M_Pct(s, p) # 0
    THEN Least({p \in (i + 3)..Len(s) : M_Pct(s, p) # 0}) ELSE 0

\* (\d{1,3})\s*%.{0,800}?Rotten Tomatoes (line 786): a percentage with a
\* mention after it
M_PctThenRt(s, i) ==
    IF M_Pct(s, i) # 0
       /\ FindSeq(Lower(s), <<"rotten", " ", "tomatoes">>,
                  FindChar(s, "%", i) + 1) # 0
    THEN i ELSE 0

\* _extract_rt_score; wd is what _fetch_rt_score_from_wikidata answers
extract_rt_score(w, wd) ==
    LET bare == Search(w, M_RtDataBare) # 0
        prose == RtProse(w)
    IN FirstOf(<<
        IF bare THEN wd ELSE NoneV,
        ScoreByDigits(w, RtDataDigits),
        ScoreByDigits(w, RtProseDigits),
        IF HasRottenTomatoes(w)
        THEN FirstOf(<<ScoreByCount(w, M_Pct), ScoreByCount(w, M_PctWord),
                       ScoreByDigits(w, PctTemplateDigits)>>)
        ELSE NoneV,
        IF HasRottenTomatoes(prose) THEN ScoreByCount(prose, M_Pct) ELSE NoneV,
        IF Search(prose, M_RtThenPct) # 0
        THEN ScoreByCount(From(prose, Search(prose, M_RtThenPct) + 3), M_Pct)
        ELSE NoneV,
        IF Search(prose, M_PctThenRt) # 0
        THEN Score(prose, Search(prose, M_PctThenRt),
                   M_Pct(prose, Search(prose, M_PctThenRt)))
        ELSE NoneV,
        IF bare THEN wd ELSE NoneV >>)

\* the run of 1 to 3 digits that \d{1,3} followed by a non-digit takes at d,
\* 0 when the run is longer or empty
Exact3(s, d) == IF SkipIn(s, Digits, d) - d \in 1..3 THEN SkipIn(s, Digits, d) - d ELSE 0

\* \{\{Metacritic[^}]*?(\d{1,3})[^}]*\}\} with re.IGNORECASE: index of the
\* digits
McTemplateDigits(s, i) ==
    LET c == FindChar(s, "}", i + 3)
        d == FindIn(s, Digits, i + 3)
    IN IF /\ StartsWithAt(s, <<"{", "{">>, i) /\ i + 2 <= Len(s)
          /\ LowerTok(s[i + 2]) = "metacritic"
          /\ c # 0 /\ StartsWithAt(s, <<"}", "}">>, c) /\ d # 0 /\ d < c
       THEN d ELSE 0

\* Metacritic[^0-9]{0,200}?(\d{1,3})\s*out of\s*100: index of the digits
McOutOfDigits(s, i) ==
    LET d == FindIn(s, Digits, i + 1)
        o == SkipSpace(s, d + Exact3(s, d))
        h == SkipSpace(s, o + 3)
    IN IF /\ i <= Len(s) /\ LowerTok(s[i]) = "metacritic"
          /\ d # 0 /\ CharsBetween(s, i + 1, d - 1) <= 200 /\ Exact3(s, d) # 0
          /\ StartsWithAt(Lower(s), <<"out", " ", "of">>, o)
          /\ StartsWithAt(s, <<"1", "0", "0">>, h)
       THEN d ELSE 0

\* [^.\d]{0,n}? from a to the lexeme at b: nothing between is a full stop
\* or a digit and at most n characters lie between
Gap(s, a, b, n) ==
    /\ b >= a
    /\ \A x \in a..(b - 1) : s[x] \notin Digits \cup {"."}
    /\ CharsBetween(s, a, b - 1) <= n

\* Metacritic[^.\d]{0,40}?(\d{1,3})\s*/\s*100: index of the digits
McSlashDigits(s, i) ==
    LET d == FindIn(s, Digits \cup {"."}, i + 1)
        o == SkipSpace(s, d + Exact3(s, d))
        h == SkipSpace(s, o + 1)
    IN IF /\ i <= Len(s) /\ LowerTok(s[i]) = "metacritic"
          /\ d # 0 /\ Gap(s, i + 1, d, 40) /\ Exact3(s, d) # 0
          /\ o <= Len(s) /\ s[o] = "/"
          /\ StartsWithAt(s, <<"1", "0", "0">>, h)
       THEN d ELSE 0

\* Metacritic[^.\d]{0,40}?score[^.\d]{0,10}?(\d{1,3}): index of the digits
McScoreDigits(s, i) ==
    LET ps == {p \in (i + 1)..Len(s) :
                  /\ LowerTok(s[p]) = "score" /\ Gap(s, i + 1, p, 40)
                  /\ FindIn(s, Digits, p + 1) # 0
                  /\ Gap(s, p + 1, FindIn(s, Digits, p + 1), 10)}
    IN IF i <= Len(s) /\ LowerTok(s[i]) = "metacritic" /\ ps # {}
       THEN FindIn(s, Digits, Least(ps) + 1) ELSE 0

\* Metacritic[^.\n]{0,120}?score of (\d{1,3}) out of 100: index of the digits
McScoreOfDigits(s, i) ==
    LET ps == {p \in (i + 1)..Len(s) :
                  /\ StartsWithAt(Lower(s), <<"score", " ", "of", " ">>, p)
                  /\ \A x \in (i + 1)..(p - 1) : s[x] \notin {".", "\n"}
                  /\ CharsBetween(s, i + 1, p - 1) <= 120
                  /\ Exact3(s, p + 4) # 0
                  /\ StartsWithAt(Lower(s), <<" ", "out", " ", "of", " ", "1", "0", "0">>,
                                  p + 4 + Exact3(s, p + 4))}
    IN IF i <= Len(s) /\ LowerTok(s[i]) = "metacritic" /\ ps # {}
       THEN Least(ps) + 4 ELSE 0

extract_metacritic_score(w) ==
    FirstOf(<<ScoreByDigits(w, McTemplateDigits), ScoreByDigits(w, McOutOfDigits),
              ScoreByDigits(w, McSlashDigits), ScoreByDigits(w, McScoreDigits),
              ScoreByDigits(w, McScoreOfDigits)>>)

(***************************************************************************)
(* process_movie's result.                                                 *)
(***************************************************************************)
\* _fetch_rt_score_from_wikidata (lines 682-741): the remote answer is a
\* number, or nothing usable (no entity, no claim, a network error: None)
WikidataAnswers == {None, -5, 0, 84, 250}

fetch_rt_score_from_wikidata(answer) ==
    IF answer = None THEN NoneV
    ELSE IntV(IF answer > 100 THEN 100 ELSE IF answer < 0 THEN 0 ELSE answer)

\* lines 830-843: the record returned when no wikitext was obtained
UnavailableRecord(article_title) ==
    [page_title |-> article_title, title |-> <<>>, classification |-> "",
     director |-> <<>>, budget |-> StrV(<<>>), box_office |-> StrV(<<>>),
     release_date |-> StrV(<<>>), running_time |-> StrV(<<>>), genre |-> <<>>,
     rotten_tomatoes |-> StrV(<<>>), metacritic |-> StrV(<<>>)]

\* lines 848-873 once the field map is there: the record of the values the
\* extractors give; wd is what the Wikidata lookup answers
RecordOf(fields, wt, article_title, lookup_title, classification, wd) ==
    LET RunningTimeOr(n) == IF n \in {NoneV, IntV(0)} THEN StrV(<<>>) ELSE n IN
    [page_title |-> lookup_title,
     title |-> OrElse(parse_title(fields, wt), article_title),
     classification |-> classification,
     director |-> parse_director(fields),
     budget |-> parse_budget(fields),
     box_office |-> parse_box_office(fields),
     release_date |-> parse_release_date(fields, wt),
     running_time |-> RunningTimeOr(parse_running_time(fields, wt)),
     genre |-> parse_genre(wt),
     rotten_tomatoes |-> extract_rt_score(wt, IF lookup_title # <<>> THEN wd
                                               ELSE NoneV),
     metacritic |-> extract_metacritic_score(wt)]

\* lines 845-873; answer is what the Wikidata lookup gets when it is made
MovieRecord(wt, article_title, resolved_title, classification, answer) ==
    RecordOf(extract_infobox_fields(wt), wt, article_title,
             OrElse(resolved_title, article_title), classification,
             fetch_rt_score_from_wikidata(answer))

(***************************************************************************)
(* Articles the parser is run on.                                          *)
(***************************************************************************)
\* a complete article: template, bold title, genres and both scores
D_Full ==
    <<"{", "{", "Infobox", " ", "film", "\n", "|", " ", "name", " ", "=",
      " ", "Alpha", "\n", "|", " ", "director", " ", "=", " ", "[", "[",
      "Ann", "]", "]", ",", " ", "Bob", " ", "and", " ", "Ann", "\n", "|",
      " ", "budget", " ", "=", " ", "$", "5", " ", "million", "\n", "|", " ",
      "gross", " ", "=", " ", "$", "1", "2", ".", "5", " ", "million", "\n",
      "|", " ", "released", " ", "=", " ", "{", "{", "Film", " ", "date",
      "|", "2", "0", "1", "5", "|", "6", "|", "5", "}", "}", "\n", "|", " ",
      "runtime", " ", "=", " ", "9", "5", " ", "minutes", "\n", "}", "}",
      "\n", "'", "'", "'", "Alpha", "'", "'", "'", " ", "is", " ", "a", " ",
      "2", "0", "1", "5", " ", "[", "[", "comedy", "]", "]", " ", "[", "[",
      "Comedy", " ", "film", "|", "comedy", "]", "]", " ", "[", "[", "drama",
      " ", "film", "]", "]", ".", " ", "Rotten", " ", "Tomatoes", " ", "8",
      "4", "%", ".", " ", "Metacritic", " ", "7", "0", "/", "1", "0", "0",
      ".">>

\* prose only, a bare year
D_Year ==
    <<"Alpha", " ", "is", " ", "a", " ", "2", "0", "1", "5", " ", "film",
      ".">>

\* prose only: bold title, a date, a running time, a genre and both scores
D_Prose ==
    <<"'", "'", "'", "Beta", "'", "'", "'", " ", "is", " ", "a", " ", "[",
      "[", "comedy", "]", "]", " ", "film", " ", "released", " ", "June",
      " ", "5", ",", " ", "2", "0", "1", "5", ".", " ", "Min", " ",
      "running", " ", "time", " ", "9", "5", " ", "minutes", ".", " ",
      "Rotten", " ", "Tomatoes", " ", "8", "4", "%", ".", " ", "Metacritic",
      ":", " ", "7", "0", "/", "1", "0", "0", ".">>

\* a template that is never closed
D_Unclosed ==
    <<"{", "{", "Infobox", " ", "film", "\n", "|", " ", "director", " ", "=",
      " ", "Ann", "\n", "|", " ", "budget", " ", "=", " ", "$", "5", " ",
      "million", "\n", "|", " ", "runtime", " ", "=", " ", "9", "5", " ",
      "min", "\n">>

\* a template with values the extractors must reject or bound
D_Odd ==
    <<"{", "{", "Infobox", " ", "film", "\n", "|", " ", "director", " ", "=",
      " ", "Ann", " ", "and", " ", "Ann", "\n", "|", " ", "budget", " ", "=",
      " ", "EURO_SIGN", "5", " ", "million", "\n", "|", " ", "gross", " ",
      "=", " ", "$", "0", "\n", "|", " ", "released", " ", "=", " ", "2",
      "0", "1", "5", "5", "-", "6", "-", "5", "\n", "|", " ", "runtime", " ",
      "=", " ", "0", "0", " ", "min", "\n", "}", "}", "\n", "Rotten", " ",
      "Tomatoes", " ", "1", "2", "3", "4", "%", ".", " ", "{", "{",
      "Metacritic", "|", "9", "9", "9", "}", "}">>

\* the score is left to the RT data template
D_RtData ==
    <<"{", "{", "Infobox", " ", "film", "\n", "|", " ", "name", " ", "=",
      " ", "Beta", "\n", "}", "}", "\n", "{", "{", "RT", " ", "data", "|",
      "score", "}", "}">>

\* a prose date that is no calendar day
D_BadDate ==
    <<"x", " ", "released", " ", "June", " ", "3", "1", ",", " ", "2", "0",
      "1", "5", " ", "x", " ", "2", "0", "1", "4", "-", "0", "1", "-", "0",
      "2">>

\* a template written on one line
D_Inline ==
    <<"{", "{", "Infobox", " ", "film", " ", "|", " ", "director", " ", "=",
      " ", "Ann", " ", "|", " ", "budget", " ", "=", " ", "$", "5", "}", "}",
      " ", "x">>

\* the articles, each short enough for the windows of the score extractors
Docs ==
    {d \in {D_Full, D_Year, D_Prose, D_Unclosed, D_Odd,
              D_RtData, D_BadDate, D_Inline} :
        CharsBetween(d, 1, Len(d)) <= MaxDocChars}

(***************************************************************************)
(* create_movie_database -> process_movie -> get_wiki_text ->              *)
(* extract_article_follow_redirects -> extract_article_xml.                *)
(***************************************************************************)
\* max_depth / max_redirect_depth default (lines 161, 187)
MaxDepth == 3

MovieLines == {TA \o <<"\n">>, TC \o <<"\n">>}

Worklists == UNION {[1..n -> MovieLines] : n \in 1..MaxTitles}

BuildAtRest ==
    /\ txnRows = <<>> /\ txnFts = <<>> /\ source = <<>> /\ lineNo = 0
    /\ batch = <<>> /\ total = 0 /\ builds = 0 /\ insertPasses = 0
    /\ executed = 0 /\ lastLookup = <<>>

PipeAtRest ==
    /\ wi = 0 /\ orig = <<>> /\ curTitle = <<>> /\ depth = 0
    /\ curOffset = None /\ reads = 0 /\ xml_bytes = <<>> /\ eof = FALSE
    /\ resWt = NoText /\ resTitle = <<>> /\ retLine = 0
    /\ exc = "none" /\ records = <<>>

\* no parser function is called on its own
NotCalled == [t |-> "not called"]

Returned(v) == [t |-> "returned", v |-> v]

FieldsAtRest == fn = "none" /\ fnArg = <<>> /\ fnOut = NotCalled

PipeInit ==
    /\ storeExists = TRUE
    /\ rows \in Stores
    /\ fts = PopulateFts(rows)
    /\ bpc = "done" /\ committed = TRUE
    /\ BuildAtRest
    /\ corpus \in Corpora
    /\ layout \in Layouts
    /\ worklist \in Worklists
    /\ ppc = "batch"
    /\ PipeAtRest
    /\ FieldsAtRest

\* create_movie_database lines 165-166 and process_movie line 829: take the
\* next title and enter the redirect loop
BatchNextTitle ==
    /\ ppc = "batch" /\ wi < Len(worklist)
    /\ orig' = Strip(worklist[wi + 1])
    /\ curTitle' = Strip(worklist[wi + 1])
    /\ depth' = 0
    /\ ppc' = "hop"
    /\ UNCHANGED <<buildVars, envVars, fieldVars, worklist, wi, curOffset, reads,
                   xml_bytes, eof, resWt, resTitle, exc, records>>
    /\ UNCHANGED retLine

\* the for loop of line 164 admits another iteration
HopAdmitted_Always == TRUE

HopAdmitted == depth < MaxDepth

\* the label returned next to None when the resolver gives up
FailedLabel_Original == orig

FailedLabel == curTitle

\* lines 164-168 with 114-116: the title has no row; extract_article_xml
\* returns None and the resolver returns (None, title)
HopNotIndexed ==
    /\ ppc = "hop" /\ HopAdmitted
    /\ get_offset_for_title(curTitle, rows) = None
    /\ depth' = depth + 1
    /\ curOffset' = None
    /\ resWt' = NoText /\ resTitle' = FailedLabel
    /\ ppc' = "resolved" /\ retLine' = 168
    /\ UNCHANGED <<buildVars, envVars, fieldVars, worklist, wi, orig, curTitle, reads,
                   xml_bytes, eof, exc, records>>

\* lines 164-166 with 118-121: open the dump, seek, fresh decompressor
HopOpen ==
    /\ ppc = "hop" /\ HopAdmitted
    /\ get_offset_for_title(curTitle, rows) # None
    /\ depth' = depth + 1
    /\ curOffset' = get_offset_for_title(curTitle, rows)
    /\ reads' = 0 /\ xml_bytes' = <<>> /\ eof' = FALSE
    /\ ppc' = "reading"
    /\ UNCHANGED <<buildVars, envVars, fieldVars, worklist, wi, orig, curTitle, resWt,
                   resTitle, exc, records>>
    /\ UNCHANGED retLine

\* lines 179-180: the loop ran max_depth times without returning
HopLimit ==
    /\ ppc = "hop" /\ ~HopAdmitted
    /\ resWt' = NoText /\ resTitle' = FailedLabel
    /\ ppc' = "resolved" /\ retLine' = 180
    /\ UNCHANGED <<buildVars, envVars, fieldVars, worklist, wi, orig, curTitle, depth,
                   curOffset, reads, xml_bytes, eof, exc, records>>

\* the chunk the next read returns
NextChunkExists == reads + 1 <= Len(Archive(corpus, layout, curOffset))
NextChunk == Archive(corpus, layout, curOffset)[reads + 1]

\* the for loop of line 123 admits another read
ReadAdmitted_Always == TRUE

ReadAdmitted == reads < MaxReads

\* lines 124-126: read returns b"" (end of file), break
ReadExhausted ==
    /\ ppc = "reading" /\ ReadAdmitted
    /\ ~NextChunkExists
    /\ reads' = reads + 1
    /\ ppc' = "select"
    /\ UNCHANGED <<buildVars, envVars, fieldVars, worklist, wi, orig, curTitle, depth,
                   curOffset, xml_bytes, eof, resWt, resTitle, exc, records>>
    /\ UNCHANGED retLine

\* line 127: decompress raises OSError on bytes that are not a bz2 stream and
\* EOFError when fed after the end of the stream; nothing on the call path
\* up to the batch loop catches it
ReadRaise ==
    /\ ppc = "reading" /\ ReadAdmitted
    /\ NextChunkExists
    /\ eof \/ NextChunk.bad
    /\ reads' = reads + 1
    /\ exc' = IF eof THEN "EOFError" ELSE "OSError"
    /\ ppc' = "aborted"
    /\ UNCHANGED <<buildVars, envVars, fieldVars, worklist, wi, orig, curTitle, depth,
                   curOffset, xml_bytes, eof, resWt, resTitle, records>>
    /\ UNCHANGED retLine

\* lines 124-129: one read, decompressed and accumulated; the loop is left
\* when the end marker has appeared
ReadChunk ==
    /\ ppc = "reading" /\ ReadAdmitted
    /\ NextChunkExists
    /\ ~eof /\ ~NextChunk.bad
    /\ reads' = reads + 1
    /\ xml_bytes' = xml_bytes \o NextChunk.out
    /\ eof' = NextChunk.ends
    /\ ppc' = IF HasMarker(xml_bytes') THEN "select" ELSE "reading"
    /\ UNCHANGED <<buildVars, envVars, fieldVars, worklist, wi, orig, curTitle, depth,
                   curOffset, resWt, resTitle, exc, records>>
    /\ UNCHANGED retLine

\* line 123: range(40) is used up
ReadCap ==
    /\ ppc = "reading" /\ ~ReadAdmitted
    /\ ppc' = "select"
    /\ UNCHANGED <<buildVars, envVars, fieldVars, worklist, wi, orig, curTitle, depth,
                   curOffset, reads, xml_bytes, eof, resWt, resTitle, exc,
                   records>>
    /\ UNCHANGED retLine

\* the wikitext of line 169 (None when the block itself is empty, line 167)
Selected ==
    IF xml_bytes = <<>> THEN NoText
    ELSE extract_wikitext_from_xml(xml_bytes, curTitle)

\* lines 167-171: no block or no wikitext
SelectNothing ==
    /\ ppc = "select"
    /\ Falsy(Selected)
    /\ resWt' = NoText /\ resTitle' = FailedLabel
    /\ ppc' = "resolved"
    /\ retLine' = IF xml_bytes = <<>> THEN 168 ELSE 171
    /\ UNCHANGED <<buildVars, envVars, fieldVars, worklist, wi, orig, curTitle, depth,
                   curOffset, reads, xml_bytes, eof, exc, records>>

RedirectTarget == resolve_redirect_target(Selected)

\* an alias is followed wherever it names a target
CanFollow_AnyTarget == ~Falsy(RedirectTarget)

CanFollow ==
    /\ ~Falsy(RedirectTarget)
    /\ get_offset_for_title(RedirectTarget, rows) # None

\* lines 172-176: an alias whose target is indexed; continue with the target
FollowRedirect ==
    /\ ppc = "select"
    /\ ~Falsy(Selected) /\ is_redirect(Selected)
    /\ CanFollow
    /\ curTitle' = RedirectTarget
    /\ ppc' = "hop"
    /\ UNCHANGED <<buildVars, envVars, fieldVars, worklist, wi, orig, depth, curOffset,
                   reads, xml_bytes, eof, resWt, resTitle, exc, records>>
    /\ UNCHANGED retLine

\* line 177: an alias without a usable target
RedirectDeadEnd ==
    /\ ppc = "select"
    /\ ~Falsy(Selected) /\ is_redirect(Selected)
    /\ ~CanFollow
    /\ resWt' = NoText /\ resTitle' = FailedLabel
    /\ ppc' = "resolved" /\ retLine' = 177
    /\ UNCHANGED <<buildVars, envVars, fieldVars, worklist, wi, orig, curTitle, depth,
                   curOffset, reads, xml_bytes, eof, exc, records>>

\* line 178: a document that is not an alias
Resolve ==
    /\ ppc = "select"
    /\ ~Falsy(Selected) /\ ~is_redirect(Selected)
    /\ resWt' = Selected /\ resTitle' = curTitle
    /\ ppc' = "resolved" /\ retLine' = 178
    /\ UNCHANGED <<buildVars, envVars, fieldVars, worklist, wi, orig, curTitle, depth,
                   curOffset, reads, xml_bytes, eof, exc, records>>

\* process_movie lines 830-843 and create_movie_database lines 167-168: no
\* wikitext, the empty record is returned and the loop goes on
ProcessUnavailable ==
    /\ ppc = "resolved"
    /\ Falsy(resWt)
    /\ records' = Append(records, UnavailableRecord(orig))
    /\ wi' = wi + 1
    /\ ppc' = "batch"
    /\ UNCHANGED <<buildVars, envVars, fieldVars, worklist, orig, curTitle, depth,
                   curOffset, reads, xml_bytes, eof, resWt, resTitle, exc>>
    /\ UNCHANGED retLine

\* process_movie lines 845-873: classification answered with a digit 0-5,
\* the fields are parsed and the record returned
ProcessMovie ==
    /\ ppc = "resolved"
    /\ ~Falsy(resWt)
    /\ \E stream \in Streams, answer \in WikidataAnswers :
         /\ ClassifyOutcome(stream).ok
         /\ records' = Append(records,
                MovieRecord(resWt, orig, resTitle, ClassifyOutcome(stream).val,
                            answer))
    /\ wi' = wi + 1
    /\ ppc' = "batch"
    /\ UNCHANGED <<buildVars, envVars, fieldVars, worklist, orig, curTitle, depth,
                   curOffset, reads, xml_bytes, eof, resWt, resTitle, exc>>
    /\ UNCHANGED retLine

\* the classification call raises: the service is unreachable (ollama.chat),
\* or line 107 cannot turn the first token into a category
ClassifyRaises ==
    /\ ppc = "resolved"
    /\ ~Falsy(resWt)
    /\ \/ exc' = "ConnectionError"
       \/ \E stream \in Streams :
            /\ ~ClassifyOutcome(stream).ok
            /\ exc' = ClassifyOutcome(stream).val
    /\ ppc' = "aborted"
    /\ UNCHANGED <<buildVars, envVars, fieldVars, worklist, wi, orig, curTitle, depth,
                   curOffset, reads, xml_bytes, eof, resWt, resTitle, records>>
    /\ UNCHANGED retLine

PipeNext ==
    \/ BatchNextTitle
    \/ HopNotIndexed
    \/ HopOpen
    \/ HopLimit
    \/ ReadExhausted
    \/ ReadRaise
    \/ ReadChunk
    \/ ReadCap
    \/ SelectNothing
    \/ FollowRedirect
    \/ RedirectDeadEnd
    \/ Resolve
    \/ ProcessUnavailable
    \/ ProcessMovie
    \/ ClassifyRaises

SpecPipe == PipeInit /\ [][PipeNext]_vars

\* The batch run over a sound archive with a complete index, where the
\* record of A holds one of the articles (or no text at all)
ParseCorpora ==
    {[l \in Labels |-> IF l = TA THEN d ELSE T_Article] : d \in Docs \cup {T_Empty}}

ParseInit ==
    /\ storeExists = TRUE
    /\ rows = <<Row(TA, 10, 1), Row(TB, 10, 2), Row(TC, 30, 3), Row(TD, 30, 4)>>
    /\ fts = PopulateFts(rows)
    /\ bpc = "done" /\ committed = TRUE
    /\ BuildAtRest
    /\ corpus \in ParseCorpora
    /\ layout = [o \in Offsets |-> "both"]
    /\ worklist \in {<<TA \o <<"\n">> >>, <<TC \o <<"\n">>, TA \o <<"\n">> >>}
    /\ ppc = "batch"
    /\ PipeAtRest
    /\ FieldsAtRest

ParseNext ==
    \/ BatchNextTitle
    \/ HopOpen
    \/ ReadChunk
    \/ SelectNothing
    \/ Resolve
    \/ ProcessUnavailable
    \/ ProcessMovie
    \/ ClassifyRaises

SpecParse == ParseInit /\ [][ParseNext]_vars

(***************************************************************************)
(* The field parsers called on their own, each on values written out from  *)
(* a description of what the value says.                                   *)
(***************************************************************************)
\* a number as a field writes it: its characters and the quantity num/den
Figure(text, num, den) == [text |-> text, num |-> num, den |-> den]

MoneyAmounts ==
    {Figure(<<"6">>, 6, 1), Figure(<<"7">>, 7, 1), Figure(<<"1">>, 1, 1),
     Figure(<<"2">>, 2, 1), Figure(<<"1", "0">>, 10, 1),
     Figure(<<"1", ".", "5">>, 3, 2),
     Figure(<<"1", ",", "2", "5", "0">>, 1250, 1),
     Figure(<<"9", "8", "5", ",", "0", "0", "0">>, 985000, 1)}

\* the amount is written with a thousands separator
HasSeparator(a) == \E k \in 1..Len(a.text) : a.text[k] = ","

\* a magnitude word, <<>> for none
MoneyUnits == {<<>>, <<"million">>, <<"m">>}

\* an amount with its unit; a number written out in full carries none
Endpoints ==
    {[a |-> a, unit |-> u] : a \in MoneyAmounts, u \in MoneyUnits} \
        {[a |-> a, unit |-> u] :
            a \in {x \in MoneyAmounts : HasSeparator(x)}, u \in MoneyUnits \ {<<>>}}

Dashes == {"-", "EN_DASH", "EM_DASH"}

\* values of the budget and box office fields: one amount, or a range
MoneyArgs ==
    [kind : {"single"}, cur : {<<>>, <<"$">>}, gap : {<<>>, <<" ">>}, e1 : Endpoints]
    \cup [kind : {"range"}, cur : {<<>>, <<"$">>}, gap : {<<>>, <<" ">>},
          e1 : Endpoints, dash : Dashes, around : {<<>>, <<" ">>}, e2 : Endpoints]

EndpointText(e, gap) ==
    e.a.text \o (IF e.unit = <<>> THEN <<>> ELSE gap \o e.unit)

\* the dollar amounts that stand in brackets behind another currency's
DollarParts ==
    {m \in MoneyArgs :
        /\ m.cur = <<"$">> /\ m.gap = <<" ">>
        /\ m.kind = "range" => m.dash = "EN_DASH" /\ m.around = <<>>}

\* how a value names a currency that is not the dollar: by its sign, by a
\* link to it, by a template of its name; with an amount in that currency
ForeignArgs ==
    [kind : {"foreign"}, mark : {"sign", "link", "template"},
     e1 : {e \in Endpoints : e.a.text \in {<<"6">>, <<"1", ".", "5">>}},
     dollar : DollarParts \cup {[kind |-> "none"]}]

RECURSIVE MoneyText(_)
\* the characters of the value
MoneyText(m) ==
    CASE m.kind = "single" -> m.cur \o EndpointText(m.e1, m.gap)
      [] m.kind = "range" ->
            m.cur \o EndpointText(m.e1, m.gap) \o m.around \o <<m.dash>>
            \o m.around \o EndpointText(m.e2, m.gap)
      [] m.kind = "foreign" ->
            (CASE m.mark = "sign" -> <<"EURO_SIGN">> \o EndpointText(m.e1, <<" ">>)
               [] m.mark = "link" ->
                     <<"[", "[", "euro", "]", "]", " ">> \o EndpointText(m.e1, <<" ">>)
               [] m.mark = "template" ->
                     <<"{", "{", "euro", "|">> \o EndpointText(m.e1, <<" ">>)
                     \o <<"}", "}">>)
            \o (IF m.dollar.kind = "none" THEN <<>>
                ELSE <<" ", "(">> \o MoneyText(m.dollar) \o <<")">>)

\* ---- values of the release date field, and texts around it ----
\* a part of a date template: its characters, and the digits it stands for
\* in a date (<<>> when it stands for none of the right length)
Part(text, says) == [text |-> text, says |-> says]

YearParts == {Part(<<"2", "0", "1", "5">>, <<"2", "0", "1", "5">>), Part(<<"2", "0", "1", "5", "5">>, <<>>), Part(<<"1", "5">>, <<>>)}

MonthParts ==
    {Part(<<"6">>, <<"0", "6">>), Part(<<"0", "6">>, <<"0", "6">>), Part(<<"june">>, <<"0", "6">>), Part(<<"1", "2", "3">>, <<>>)}

\* the day may be left out
DayParts ==
    {Part(<<>>, <<"0", "1">>), Part(<<"5">>, <<"0", "5">>), Part(<<"1", "2">>, <<"1", "2">>), Part(<<"1", "2", "3">>, <<>>)}

DateTemplates ==
    [form : {"template"}, name : {<<"film", " ", "date">>, <<"Film", " ", "date">>},
     extra : BOOLEAN, y : YearParts, m : MonthParts, d : DayParts]
    \cup [form : {"template"}, name : {<<"film", " ", "date">>}, extra : {FALSE},
          y : YearParts, m : {Part(<<>>, <<>>)}, d : {Part(<<>>, <<>>)}]

\* a field that is no template: a date already in ISO shape, other text, and
\* text that value cleaning removes altogether
DateFields ==
    DateTemplates
    \cup {[form |-> "iso", text |-> <<"2", "0", "1", "5", "-", "0", "6", "-", "0", "5">>],
          [form |-> "text", text |-> <<"2", "0", "1", "5">>],
          [form |-> "text", text |-> <<"June", " ", "5", ",", " ", "2", "0", "1", "5">>],
          [form |-> "text", text |-> <<"x">>],
          [form |-> "hidden", text |-> <<"<", "!", "-", "-", " ", "x", " ", "-", "-", ">">>],
          [form |-> "hidden", text |-> <<"<", "ref", ">", "x", "<", "/", "ref", ">">>],
          [form |-> "absent"]}

DateFieldText(f) ==
    IF f.form # "template" THEN f.text
    ELSE <<"{", "{">> \o f.name
         \o (IF f.extra THEN <<"|", "x", "=", "x">> ELSE <<>>)
         \o <<"|">> \o f.y.text
         \o (IF f.m.text # <<>> THEN <<"|">> \o f.m.text ELSE <<>>)
         \o (IF f.d.text # <<>> THEN <<"|">> \o f.d.text ELSE <<>>)
         \o <<"}", "}">>

\* what a text may hold that looks like a date: its characters, the date it
\* says in ISO shape (<<>> when it says none), and the first bare year in it
\* with 01-01 (<<>> when it holds none)
Cue(kind, text, says, bare) == [kind |-> kind, text |-> text, says |-> says, bare |-> bare]

DateCues ==
    {Cue("prose", <<"June", " ", "1", "2", ",", " ", "2", "0", "1", "5">>, <<"2", "0", "1", "5", "-", "0", "6", "-", "1", "2">>, <<"2", "0", "1", "5", "-", "0", "1", "-", "0", "1">>),
     Cue("prose", <<"May", " ", "5", ",", " ", "2", "0", "1", "4">>, <<"2", "0", "1", "4", "-", "0", "5", "-", "0", "5">>, <<"2", "0", "1", "4", "-", "0", "1", "-", "0", "1">>),
     Cue("prose", <<"June", " ", "3", "1", ",", " ", "2", "0", "1", "5">>, <<>>, <<"2", "0", "1", "5", "-", "0", "1", "-", "0", "1">>),
     Cue("iso", <<"2", "0", "1", "4", "-", "0", "3", "-", "0", "2">>, <<"2", "0", "1", "4", "-", "0", "3", "-", "0", "2">>, <<"2", "0", "1", "4", "-", "0", "1", "-", "0", "1">>),
     Cue("year", <<"2", "0", "1", "3">>, <<>>, <<"2", "0", "1", "3", "-", "0", "1", "-", "0", "1">>),
     Cue("none", <<"1", "2", "3", "4", "5">>, <<>>, <<>>)}

\* up to MaxCues of them in a row
MaxCues == 2

DateBodies == UNION {[1..n -> DateCues] : n \in 0..MaxCues}

RECURSIVE DateBodyText(_)
DateBodyText(body) ==
    IF body = <<>> THEN <<"x">>
    ELSE <<"x", " ">> \o Head(body).text \o <<" ">> \o DateBodyText(Tail(body))

DateArgs ==
    [kind : {"date"}, key : {<<"release", " ", "date">>, <<"released">>},
     field : DateFields, body : DateBodies]

DateFieldsOf(a) ==
    IF a.field.form = "absent" THEN EmptyFields
    ELSE Put(EmptyFields, a.key, DateFieldText(a.field))

\* ---- opening sentences for the genres ----
\* a word or a link of the sentence: its characters; whether it is a link
\* that looks like a genre; whether it carries a film/genre marker of its
\* own; the genre it names; whether it is the word "film" standing alone;
\* whether its characters hold " film" once a blank precedes it
GenreItems ==
    {[text |-> <<"film">>, candidate |-> FALSE, marker |-> FALSE,
      genre |-> <<>>, film |-> TRUE, spaceFilm |-> TRUE],
     [text |-> <<"films">>, candidate |-> FALSE, marker |-> FALSE,
      genre |-> <<>>, film |-> FALSE, spaceFilm |-> TRUE],
     [text |-> <<"drama">>, candidate |-> FALSE, marker |-> FALSE,
      genre |-> <<>>, film |-> FALSE, spaceFilm |-> FALSE],
     [text |-> <<"[", "[", "horror", "]", "]">>, candidate |-> TRUE, marker |-> FALSE,
      genre |-> <<"horror">>, film |-> FALSE, spaceFilm |-> FALSE],
     [text |-> <<"[", "[", "Comedy", "|", "comedy", "]", "]">>, candidate |-> TRUE, marker |-> FALSE,
      genre |-> <<"comedy">>, film |-> FALSE, spaceFilm |-> FALSE],
     [text |-> <<"[", "[", "comedy", " ", "film", "]", "]">>, candidate |-> TRUE, marker |-> TRUE,
      genre |-> <<"comedy">>, film |-> FALSE, spaceFilm |-> TRUE],
     [text |-> <<"[", "[", "Drama", " ", "(", "genre", ")", "|", "Drama", "]", "]">>, candidate |-> TRUE, marker |-> TRUE,
      genre |-> <<"drama">>, film |-> FALSE, spaceFilm |-> FALSE],
     [text |-> <<"[", "[", "Ann", "]", "]">>, candidate |-> FALSE, marker |-> FALSE,
      genre |-> <<>>, film |-> FALSE, spaceFilm |-> FALSE]}

MaxItems == 3

GenreArgs ==
    [kind : {"genre"}, items : UNION {[1..n -> GenreItems] : n \in 0..MaxItems}]

RECURSIVE ItemsText(_)
ItemsText(items) ==
    IF items = <<>> THEN <<>>
    ELSE <<" ">> \o Head(items).text \o ItemsText(Tail(items))

\* the lead of an article whose opening sentence holds the items
GenreText(a) == <<"Alpha", " ", "is", " ", "an">> \o ItemsText(a.items) \o <<".", "\n", "\n", "Beta">>

\* ---- documents for the lead paragraph ----
\* what may stand in front of the prose: templates (one with a template
\* inside), a comment, tables (one with a template in a cell), file links
\* (one with a link in its caption), a newline
LeadConstructs ==
    {<<"{", "{", "Infobox", " ", "film", "}", "}">>,
     <<"{", "{", "Infobox", " ", "film", "|", "{", "{", "plainlist", "|", "x", "}", "}", "}", "}">>,
     <<"<", "!", "-", "-", " ", "x", " ", "-", "-", ">">>,
     <<"{", "|", "\n", "|", "x", "\n", "|", "}">>,
     <<"{", "|", "\n", "|", "{", "{", "x", "|", "}", "}", "\n", "|", "}">>,
     <<"[", "[", "File", ":", "x", "]", "]">>,
     <<"[", "[", "File", ":", "x", "|", "[", "[", "y", "]", "]", "]", "]">>,
     <<"\n">>}

\* prose of one paragraph; it may open with a link
LeadProse ==
    {<<"Alpha", " ", "is", " ", "a", " ", "film", ".">>,
     <<"Alpha", " ", "is", "\n", "a", " ", "film", ".">>,
     <<"[", "[", "horror", "]", "]", " ", "is", " ", "a", " ", "film", ".">>,
     <<"[", "[", "Ann", "]", "]", ":", " ", "Bob", " ", "is", " ", "a", " ", "film", ".">>}

MaxLead == 3

LeadArgs ==
    [kind : {"lead"}, skipped : UNION {[1..n -> LeadConstructs] : n \in 0..MaxLead},
     prose : LeadProse]

RECURSIVE Joined(_)
Joined(texts) == IF texts = <<>> THEN <<>> ELSE Head(texts) \o Joined(Tail(texts))

\* the document: the constructs, the prose, a blank line, more text
LeadText(a) == Joined(a.skipped) \o a.prose \o <<"\n", "\n", "Beta", " ", "is", " ", "a", " ", "film", ".">>

\* ---- documents for the template scanner ----
\* a piece of text behind the opener of the infobox: its characters, by how
\* much it changes the number of open templates, and the field it starts
\* (<<>> for none)
TemplateParts ==
    {[text |-> <<"\n", "|", "name", "=", "Alpha">>, delta |-> 0, key |-> <<"name">>],
     [text |-> <<"\n", "|", "director", "=", "{", "{", "plainlist", "|", "Ann", "}", "}">>, delta |-> 0, key |-> <<"director">>],
     [text |-> <<"\n", "|", "budget", "=", "{", "{", "nowrap", "|", "5">>, delta |-> 1, key |-> <<"budget">>],
     [text |-> <<"}", "}">>, delta |-> -1, key |-> <<>>],
     [text |-> <<"\n", "|", "gross", "=", "6">>, delta |-> 0, key |-> <<"gross">>]}

MaxParts == 4

\* what follows the last piece, up to the end of the text
TemplateTails == {<<>>, <<"}">>, <<"\n", "Alpha", " ", "is", " ", "a", " ", "film", ".">>}

TemplateArgs ==
    [kind : {"template"},
     parts : UNION {[1..n -> TemplateParts] : n \in 0..MaxParts},
     tail : TemplateTails]

RECURSIVE PartsText(_)
PartsText(parts) ==
    IF parts = <<>> THEN <<>> ELSE Head(parts).text \o PartsText(Tail(parts))

TemplateText(a) == <<"Alpha", "\n", "{", "{", "Infobox", " ", "film">> \o PartsText(a.parts) \o a.tail

\* ---- lines of a template ----
\* a physical line between the opener and the closing braces: its
\* characters; whether it opens a field ("key"), is other text ("more"),
\* starts with the separator without holding "=" ("bar"), or is blank; the
\* name and the value of the field it opens; the text it shows once the
\* blanks in front are dropped
TemplateLines ==
    {[kind |-> "key", text |-> <<"|", "name", "=", "Alpha">>, key |-> <<"name">>,
      value |-> <<"Alpha">>, shown |-> <<>>],
     [kind |-> "key", text |-> <<"|", " ", "Director", " ", "=", " ", "Bob", " ">>, key |-> <<"director">>,
      value |-> <<"Bob">>, shown |-> <<>>],
     [kind |-> "key", text |-> <<"|", "director", "=", "Ann">>, key |-> <<"director">>,
      value |-> <<"Ann">>, shown |-> <<>>],
     [kind |-> "key", text |-> <<"|", "name", "=">>, key |-> <<"name">>,
      value |-> <<>>, shown |-> <<>>],
     [kind |-> "more", text |-> <<"*", " ", "Bob">>, key |-> <<>>,
      value |-> <<>>, shown |-> <<"*", " ", "Bob">>],
     [kind |-> "more", text |-> <<" ", " ", "x", " ">>, key |-> <<>>,
      value |-> <<>>, shown |-> <<"x", " ">>],
     [kind |-> "bar", text |-> <<"|", "Ann">>, key |-> <<>>,
      value |-> <<>>, shown |-> <<"|", "Ann">>],
     [kind |-> "blank", text |-> <<" ">>, key |-> <<>>,
      value |-> <<>>, shown |-> <<>>]}

\* the line of the closing braces
ClosingLine ==
    [kind |-> "more", text |-> <<"}", "}">>, key |-> <<>>, value |-> <<>>, shown |-> <<"}", "}">>]

MaxFieldLines == 4

LineArgs ==
    [kind : {"lines"},
     lines : UNION {[1..n -> TemplateLines] : n \in 0..MaxFieldLines}]

RECURSIVE LinesText(_)
LinesText(lines) ==
    IF lines = <<>> THEN <<>>
    ELSE Head(lines).text \o <<"\n">> \o LinesText(Tail(lines))

\* the template: the opener on a line of its own, the lines, the closing
\* braces on a line of their own
FieldLinesText(a) ==
    <<"{", "{", "Infobox", " ", "film", "\n">> \o LinesText(a.lines) \o ClosingLine.text

FieldRest ==
    /\ storeExists = FALSE /\ rows = <<>> /\ fts = <<>>
    /\ bpc = "idle" /\ committed = FALSE
    /\ BuildAtRest /\ PipeAtRest
    /\ corpus = [l \in Labels |-> T_Article]
    /\ layout = [o \in Offsets |-> "both"]
    /\ worklist = <<>> /\ ppc = "idle"

FieldInit ==
    /\ FieldRest
    /\ fnOut = NotCalled
    /\ \/ fn = "parse_money_value" /\ fnArg \in MoneyArgs \cup ForeignArgs
       \/ fn = "parse_release_date" /\ fnArg \in DateArgs
       \/ fn = "parse_genre" /\ fnArg \in GenreArgs
       \/ fn = "lead_paragraph_wikitext" /\ fnArg \in LeadArgs
       \/ fn = "extract_infobox_fields" /\ fnArg \in TemplateArgs
       \/ fn = "field_lines" /\ fnArg \in LineArgs

\* _parse_money_value(text)
CallMoney ==
    /\ fn = "parse_money_value" /\ fnOut = NotCalled
    /\ fnOut' = Returned(parse_money_value(MoneyText(fnArg)))
    /\ UNCHANGED <<buildVars, envVars, pipeVars, fn, fnArg>>

\* _parse_release_date(fields, wikitext)
CallDate ==
    /\ fn = "parse_release_date" /\ fnOut = NotCalled
    /\ fnOut' = Returned(parse_release_date(DateFieldsOf(fnArg),
                                            DateBodyText(fnArg.body)))
    /\ UNCHANGED <<buildVars, envVars, pipeVars, fn, fnArg>>

\* _parse_genre(wikitext)
CallGenre ==
    /\ fn = "parse_genre" /\ fnOut = NotCalled
    /\ fnOut' = Returned(parse_genre(GenreText(fnArg)))
    /\ UNCHANGED <<buildVars, envVars, pipeVars, fn, fnArg>>

\* _lead_paragraph_wikitext(wikitext)
CallLead ==
    /\ fn = "lead_paragraph_wikitext" /\ fnOut = NotCalled
    /\ fnOut' = Returned(lead_paragraph_wikitext(LeadText(fnArg)))
    /\ UNCHANGED <<buildVars, envVars, pipeVars, fn, fnArg>>

\* _extract_infobox_fields(wikitext)
CallInfobox ==
    /\ fn = "extract_infobox_fields" /\ fnOut = NotCalled
    /\ fnOut' = Returned(extract_infobox_fields(TemplateText(fnArg)))
    /\ UNCHANGED <<buildVars, envVars, pipeVars, fn, fnArg>>

\* _extract_infobox_fields(wikitext) on a closed template, for the loop
\* over its lines (lines 141-156)
CallFieldLines ==
    /\ fn = "field_lines" /\ fnOut = NotCalled
    /\ fnOut' = Returned(extract_infobox_fields(FieldLinesText(fnArg)))
    /\ UNCHANGED <<buildVars, envVars, pipeVars, fn, fnArg>>

FieldNext ==
    \/ CallMoney
    \/ CallDate
    \/ CallGenre
    \/ CallLead
    \/ CallInfobox
    \/ CallFieldLines

SpecFields == FieldInit /\ [][FieldNext]_vars

BuildNext ==
    \/ BuildFoundExisting
    \/ BuildBegin
    \/ BuildSkipLine
    \/ BuildRaise
    \/ BuildAppendLine
    \/ BuildFinish
    \/ BuildCommit
    \/ Lookup

EnvAtRest ==
    /\ corpus = [l \in Labels |-> T_Article]
    /\ layout = [o \in Offsets |-> "both"]
    /\ worklist = <<>>
    /\ ppc = "idle"

BuildSpecInit == BuildInit /\ EnvAtRest /\ PipeAtRest /\ FieldsAtRest

SpecBuild == BuildSpecInit /\ [][BuildNext]_vars

(***************************************************************************)
(* Properties of the index store.                                          *)
(***************************************************************************)
\* C3: a call of build that finds a store at db_path performs no insert pass
\* and leaves the rows of both tables as they are, whatever they are; hence
\* over any number of calls on the same path at most one insert pass runs
\* and the row count after a later call equals the row count before it.
C3_ExistingStoreUntouched ==
    /\ [][(storeExists /\ builds' = builds + 1)
            => (/\ rows' = rows /\ fts' = fts
                /\ Len(rows') = Len(rows)
                /\ insertPasses' = insertPasses
                /\ executed' = executed)]_vars
    /\ [](insertPasses <= 1)

\* a second call has returned on a store the first call filled
C3_Witness ==
    /\ builds = 2 /\ bpc = "done" /\ insertPasses = 1 /\ committed
    /\ Len(rows) >= 2

\* the label recorded on line i of the source, when line i was written from
\* an entry
LineEntries(line) == {e \in Entries : FormatLine(e) = line}

\* the offset the source records for a label: that of the first line written
\* for it (a label is the key of the index, a repeated line adds nothing)
RecordedOffset(src, title) ==
    LET hits == {i \in 1..Len(src) : \E e \in LineEntries(src[i]) : e.title = title} IN
    IF hits = {} THEN None
    ELSE LET first == CHOOSE i \in hits : \A j \in hits : i <= j IN
         (CHOOSE e \in LineEntries(src[first]) : TRUE).offset

\* C4: after a build from a source of offset:docId:label lines,
\* get_offset_for_title returns for every label of the source the offset the
\* source records for it, also for a label that contains colons, and returns
\* None for a label the source does not hold.
C4_LookupRoundTrip ==
    (committed /\ bpc = "done") =>
        /\ \A t \in LookupTitles :
               get_offset_for_title(t, rows) = RecordedOffset(source, t)
        /\ (lastLookup # <<>> =>
               lastLookup[2] = RecordedOffset(source, lastLookup[1]))

\* the label with a colon has been looked up and its offset returned
C4_Witness ==
    /\ committed /\ bpc = "done"
    /\ lastLookup = <<(<<"A", ":", "B">>), 10>>
    /\ \E i \in 1..Len(source) : source[i] = FormatLine(Row(<<"A", ":", "B">>, 10, 2))

(***************************************************************************)
(* Properties of the redirect resolver.                                    *)
(***************************************************************************)
\* C1: whatever the index and the archive hold, alias cycles and a label that
\* redirects to itself included, the resolver starts at most max_depth
\* fetch-and-select iterations, and once they are used up its next step is
\* to return (None, title).
C1_BoundedRedirects ==
    /\ [](depth <= MaxDepth)
    /\ [][(ppc = "hop" /\ depth >= MaxDepth)
            => (ppc' = "resolved" /\ resWt' = NoText)]_vars

\* an alias cycle A -> B -> A has used up all iterations and returned
C1_Witness ==
    /\ corpus[TA] = T_Redirect(TB) /\ corpus[TB] = T_Redirect(TA)
    /\ orig = TA /\ depth = MaxDepth /\ ppc = "resolved" /\ retLine = 180

\* the label a page is an alias of, read off the corpus
AliasOf(c, l) ==
    IF l \in Labels /\ \E x \in Labels \cup {TQ} : c[l] \in {T_Redirect(x), T_RedirectLc(x)}
    THEN CHOOSE x \in Labels \cup {TQ} : c[l] \in {T_Redirect(x), T_RedirectLc(x)}
    ELSE l

RECURSIVE ChainEnd(_, _, _)
ChainEnd(c, l, n) == IF n = 0 THEN l ELSE ChainEnd(c, AliasOf(c, l), n - 1)

\* C2 as stated: when the depth cap is hit the resolver returns None together
\* with the originally requested label.
C2_ReturnsOriginalLabel ==
    (ppc = "resolved" /\ retLine = 180) => (resWt = NoText /\ resTitle = orig)

\* C2 amended: when the depth cap is hit the resolver returns None together
\* with the last label tried, the target of the max_depth-th alias of the
\* chain, and the cap raises nothing.
C2_ReturnsLastLabel ==
    (ppc = "resolved" /\ retLine = 180) =>
        /\ resWt = NoText
        /\ resTitle = ChainEnd(corpus, orig, MaxDepth)
        /\ exc = "none"

\* the chain A -> B -> C -> D has hit the cap and D, not A, is returned
C2_Witness ==
    /\ ppc = "resolved" /\ retLine = 180
    /\ orig = TA /\ resTitle = TD /\ resWt = NoText

(***************************************************************************)
(* Properties of the block retriever and the document selector.            *)
(***************************************************************************)
MarkerSeen(buf) == \E i \in 1..Len(buf) : buf[i].k = "page" \/ buf[i].k = "close"

\* C5: the read loop makes at most 40 reads; it is left by the first read
\* after which the accumulated bytes hold the end marker, so no read is ever
\* made with the marker already there; with the 40 reads used up and no
\* marker seen, the bytes accumulated so far go to the caller unchanged and
\* nothing is raised.
C5_BoundedReads ==
    /\ [](reads <= MaxReads)
    /\ [](ppc = "reading" => ~MarkerSeen(xml_bytes))
    /\ [][(ppc = "reading" /\ reads' = reads + 1 /\ MarkerSeen(xml_bytes'))
            => ppc' = "select"]_vars
    /\ [][(ppc = "reading" /\ reads = MaxReads)
            => (ppc' = "select" /\ xml_bytes' = xml_bytes /\ exc' = "none")]_vars

\* the cap has been reached on a stream whose marker never appeared
C5_Witness ==
    /\ ppc = "select" /\ reads = MaxReads /\ ~MarkerSeen(xml_bytes)
    /\ Len(xml_bytes) = MaxReads /\ exc = "none"

\* the complete records of a block up to the first point where it is not
\* well-formed, and whether there is such a point
RECURSIVE Scan(_, _, _, _)
Scan(buf, i, open, acc) ==
    IF i > Len(buf) THEN [recs |-> acc, bad |-> open # NoText]
    ELSE LET p == buf[i] IN
      IF p.k = "page" /\ open = NoText
        THEN Scan(buf, i + 1, NoText, Append(acc, [title |-> p.title, text |-> p.text]))
      ELSE IF p.k = "open" /\ open = NoText THEN Scan(buf, i + 1, p.title, acc)
      ELSE IF p.k = "mid" /\ open # NoText THEN Scan(buf, i + 1, open, acc)
      ELSE IF p.k = "close" /\ open # NoText
        THEN Scan(buf, i + 1, NoText, Append(acc, [title |-> open, text |-> p.text]))
      ELSE [recs |-> acc, bad |-> TRUE]

RecordsOf(buf) == Scan(buf, 1, NoText, <<>>).recs
Malformed(buf) == Scan(buf, 1, NoText, <<>>).bad

FirstWhere(recs, P(_)) ==
    LET hits == {i \in 1..Len(recs) : P(recs[i])} IN
    IF hits = {} THEN 0 ELSE CHOOSE i \in hits : \A j \in hits : i <= j

\* C6 as stated: the content of the first record whose label equals the
\* requested one; "not found" when no label matches, when the bytes are
\* malformed, or when that record's content is empty.
C6_FirstMatchOrNotFound ==
    (ppc = "select" /\ xml_bytes # <<>>) =>
        LET recs == RecordsOf(xml_bytes)
            m == FirstWhere(recs, LAMBDA r : r.title = curTitle)
        IN extract_wikitext_from_xml(xml_bytes, curTitle) =
             IF Malformed(xml_bytes) \/ m = 0 \/ recs[m].text = <<>>
             THEN NoText ELSE recs[m].text

\* C6 amended: the content of the first record that has the requested label
\* (exact, case-sensitive) and a non-empty content among the records that
\* precede the first malformed point of the block; "not found", never an
\* error, when there is no such record.
C6_FirstUsableBeforeError ==
    (ppc = "select" /\ xml_bytes # <<>>) =>
        LET recs == RecordsOf(xml_bytes)
            m == FirstWhere(recs, LAMBDA r : r.title = curTitle /\ r.text # <<>>)
        IN /\ extract_wikitext_from_xml(xml_bytes, curTitle) =
                IF m = 0 THEN NoText ELSE recs[m].text
           /\ exc = "none"

\* a block cut inside its second record still yields the first record
C6_Witness ==
    /\ ppc = "select" /\ curTitle = TA
    /\ Malformed(xml_bytes)
    /\ corpus[TA] = T_Article
    /\ extract_wikitext_from_xml(xml_bytes, curTitle) = T_Article

(***************************************************************************)
(* Properties of the batch loop.                                           *)
(***************************************************************************)
\* C7: a retrieval failure for one title ends in an "unavailable" result, not
\* in an exception, so the batch loop is never cut short by the retrieval of
\* a title.
C7_RetrievalNeverRaises ==
    ~(ppc = "aborted" /\ exc \in {"OSError", "EOFError"})

\* C8: a failing classification call, or one without a usable token, never
\* propagates out of process_movie; the record is still returned.
C8_ClassificationNeverRaises ==
    ~(ppc = "aborted" /\ exc \in {"ValueError", "KeyError", "ConnectionError"})

(***************************************************************************)
(* Properties of the records.                                              *)
(***************************************************************************)
RecordKeys ==
    {"page_title", "title", "classification", "director", "budget",
     "box_office", "release_date", "running_time", "genre", "rotten_tomatoes",
     "metacritic"}

\* the optional fields of a record, and what an absent one holds
OptionalKeys ==
    {"budget", "box_office", "release_date", "running_time", "rotten_tomatoes",
     "metacritic"}

Absent(v) == v = NoneV \/ v = StrV(<<>>)

\* no recognizable top-level template: none starts, or the one that starts
\* is never closed
NoTemplate(w) == InfoboxStart(w) = 0 \/ TemplateEnd(w, InfoboxStart(w), 0) = 0

\* process_movie has just returned the record of the text resWt
JustParsed ==
    /\ ppc = "batch" /\ wi > 0 /\ Len(records) = wi
    /\ ~Falsy(resWt)

LastRecord == records[Len(records)]

FirstSeenOrder(out, xs) ==
    /\ \A a, b \in 1..Len(out) : a < b => out[a] # out[b]
    /\ {out[i] : i \in 1..Len(out)} = {xs[i] : i \in 1..Len(xs)}
    /\ \A a, b \in 1..Len(out) :
          a < b => Least({i \in 1..Len(xs) : xs[i] = out[a]})
                     < Least({i \in 1..Len(xs) : xs[i] = out[b]})

\* the names the director field of a text holds, repetitions included
DirectorNames(w) ==
    CleanNames(DirectorItems(OrElse(
        Get(extract_infobox_fields(w), <<"director">>),
        Get(extract_infobox_fields(w), <<"directed", " ", "by">>))))

\* index of the first link of the sentence that is taken as the genre g,
\* 0 when there is none
GenreSeenAt(sentence, g) ==
    FirstIn({k \in 1..Len(sentence) :
        /\ M_GenreLink(sentence, k) # 0
        /\ LET m == GenreLinkAt(sentence, k) IN
             /\ LinkLabel(m) # <<>>
             /\ LooksLikeGenre(LinkLabel(m), Strip(m.target))
             /\ \/ FilmPos(sentence) = 0 \/ k <= FilmPos(sentence)
                \/ CarriesMarker(LinkLabel(m), Strip(m.target))
             /\ NormalizedGenre(LinkLabel(m)) = g})

HasShape(v, Ok(_)) == Absent(v) \/ (v.t = "int" /\ Ok(v.v))

WellTyped(r) ==
    /\ \A a, b \in 1..Len(r.director) : a < b => r.director[a] # r.director[b]
    /\ \A a, b \in 1..Len(r.genre) : a < b => r.genre[a] # r.genre[b]
    /\ \A a \in 1..Len(r.genre) :
          \A k \in 1..Len(r.genre[a]) : r.genre[a][k] \notin CapWords \cup UpperLetters
    /\ HasShape(r.budget, LAMBDA n : n >= 0)
    /\ HasShape(r.box_office, LAMBDA n : n >= 0)
    /\ \/ Absent(r.release_date)
       \/ /\ r.release_date.t = "str" /\ Len(r.release_date.v) = 10
          /\ \A k \in 1..10 : IF k \in {5, 8} THEN r.release_date.v[k] = "-"
                               ELSE r.release_date.v[k] \in Digits
    /\ HasShape(r.running_time, LAMBDA n : n > 0)
    /\ HasShape(r.rotten_tomatoes, LAMBDA n : n >= 0 /\ n <= 100)
    /\ HasShape(r.metacritic, LAMBDA n : n >= 0 /\ n <= 100)

\* C10: every record is well-typed: directors and genres hold no name
\* twice and keep the order in which the text first gives them, genres are
\* in lower case, budget and box office are absent or an integer >= 0, the
\* release date is absent or of the shape YYYY-MM-DD, the running time is
\* absent or an integer > 0, each score is absent or an integer of 0..100.
C10_RecordsWellTyped ==
    /\ \A i \in 1..Len(records) : WellTyped(records[i])
    /\ JustParsed =>
          /\ FirstSeenOrder(LastRecord.director, DirectorNames(resWt))
          /\ LET sentence == first_sentence(lead_paragraph_wikitext(resWt))
                 seen(a) == GenreSeenAt(sentence, LastRecord.genre[a])
             IN \A a, b \in 1..Len(LastRecord.genre) :
                   seen(a) # 0 /\ (a < b => seen(a) < seen(b))

\* a record with every field present, made from a text that names a
\* director twice and links a genre twice
C10_Witness ==
    /\ JustParsed
    /\ Len(LastRecord.director) = 2 /\ Len(DirectorNames(resWt)) = 3
    /\ Len(LastRecord.genre) = 2
    /\ \A k \in OptionalKeys : LastRecord[k].t = "int" \/ k = "release_date"
    /\ LastRecord.release_date.t = "str"
    /\ LastRecord.rotten_tomatoes.v = 84

(***************************************************************************)
(* Properties of the field parsers.                                        *)
(***************************************************************************)
\* fn has returned v
Gave(f) == fn = f /\ fnOut # NotCalled

\* n is an integer nearest to num/den
Nearest(n, num, den) == 2 * (n * den - num) <= den /\ 2 * (num - n * den) <= den

Multiplier(unit) == IF unit = <<>> THEN 1 ELSE 1000000

\* the unit an endpoint of a range counts in: its own, else the one of the
\* other endpoint unless it is written with a thousands separator
UnitIn(e, other) ==
    IF e.unit # <<>> THEN e.unit
    ELSE IF HasSeparator(e.a) THEN <<>> ELSE other.unit

\* C11: a range parses to the integer nearest to the mean of its two
\* endpoints, where an endpoint without unit counts in the unit of the other
\* one unless its integer part holds a thousands separator; a single amount
\* parses to the integer nearest to its value.
C11_RangeIsMeanOfEndpoints ==
    (Gave("parse_money_value") /\ fnArg.kind \in {"single", "range"}) =>
        /\ fnOut.v.t = "int"
        /\ fnArg.kind = "range" =>
              Nearest(fnOut.v.v,
                      fnArg.e1.a.num * Multiplier(UnitIn(fnArg.e1, fnArg.e2)) * fnArg.e2.a.den
                      + fnArg.e2.a.num * Multiplier(UnitIn(fnArg.e2, fnArg.e1)) * fnArg.e1.a.den,
                      2 * fnArg.e1.a.den * fnArg.e2.a.den)
        /\ fnArg.kind = "single" =>
              Nearest(fnOut.v.v, fnArg.e1.a.num * Multiplier(fnArg.e1.unit),
                      fnArg.e1.a.den)

\* "$985,000–1 million" has given 992500
C11_Witness ==
    /\ Gave("parse_money_value") /\ fnArg.kind = "range"
    /\ MoneyText(fnArg) =
         <<"$", "9", "8", "5", ",", "0", "0", "0", "EN_DASH", "1", " ", "million">>
    /\ fnOut.v = IntV(992500)

\* what the dollar amount m says, in dollars, is the integer n
SaysDollars(m, n) ==
    IF m.kind = "range"
    THEN Nearest(n, m.e1.a.num * Multiplier(UnitIn(m.e1, m.e2)) * m.e2.a.den
                    + m.e2.a.num * Multiplier(UnitIn(m.e2, m.e1)) * m.e1.a.den,
                 2 * m.e1.a.den * m.e2.a.den)
    ELSE Nearest(n, m.e1.a.num * Multiplier(m.e1.unit), m.e1.a.den)

\* C12: a value that names another currency (and holds no USD template and
\* no USD-marked list item) gives absent when no dollar amount stands in it,
\* and otherwise gives what its dollar amount parses to.
C12_ForeignGivesDollarAmount ==
    (Gave("parse_money_value") /\ fnArg.kind = "foreign") =>
        IF fnArg.dollar.kind = "none" THEN fnOut.v = NoneV
        ELSE fnOut.v.t = "int" /\ SaysDollars(fnArg.dollar, fnOut.v.v)

\* a text of the ISO shape, or absent for <<>>
DateOrAbsent(iso) == IF iso = <<>> THEN NoneV ELSE StrV(iso)

\* the date the field says, <<>> when it says none of the canonical shape
FieldSays(f) ==
    CASE f.form = "template" ->
            IF <<>> \in {f.y.says, f.m.says, f.d.says} THEN <<>>
            ELSE f.y.says \o <<"-">> \o f.m.says \o <<"-">> \o f.d.says
      [] f.form = "iso" -> f.text
      [] OTHER -> <<>>

\* the first cue of the body that satisfies Is, <<>> when there is none
FirstCue(body, Is(_)) ==
    IF \E k \in 1..Len(body) : Is(body[k])
    THEN <<body[Least({k \in 1..Len(body) : Is(body[k])})]>>
    ELSE <<>>

\* the fixed order of the fallbacks: the first prose date that is a date,
\* else the first ISO-shaped text, else the first bare year, else absent
InFixedOrder(body) ==
    LET prose == FirstCue(body, LAMBDA c : c.kind = "prose" /\ c.says # <<>>)
        iso == FirstCue(body, LAMBDA c : c.kind = "iso")
        year == FirstCue(body, LAMBDA c : c.bare # <<>>)
    IN IF prose # <<>> THEN StrV(prose[1].says)
       ELSE IF iso # <<>> THEN StrV(iso[1].says)
       ELSE IF year # <<>> THEN StrV(year[1].bare)
       ELSE NoneV

\* the same, where the first text of the prose shape decides even when it
\* is no date of the calendar
StoppingAtProse(body) ==
    LET prose == FirstCue(body, LAMBDA c : c.kind = "prose")
        iso == FirstCue(body, LAMBDA c : c.kind = "iso")
        year == FirstCue(body, LAMBDA c : c.bare # <<>>)
    IN IF prose # <<>> THEN DateOrAbsent(prose[1].says)
       ELSE IF iso # <<>> THEN StrV(iso[1].says)
       ELSE IF year # <<>> THEN StrV(year[1].bare)
       ELSE NoneV

\* C13 as stated: a release date field that is present and not empty gives
\* the date it says in the shape YYYY-MM-DD (month and day padded, the day
\* 01 when left out), and absent when it says none of that shape; nothing
\* else is ever returned.
C13_FieldGivesIsoOrAbsent ==
    (Gave("parse_release_date") /\ fnArg.field.form # "absent") =>
        fnOut.v = DateOrAbsent(FieldSays(fnArg.field))

\* C13 amended: a release date field whose value is not removed by value
\* cleaning decides alone: the date it says in the shape YYYY-MM-DD, else
\* absent; a field whose value cleans to nothing counts as missing, and the
\* text of the document is searched as if there were no field.
C13_FieldDecidesUnlessHidden ==
    (Gave("parse_release_date") /\ fnArg.field.form # "absent") =>
        IF fnArg.field.form = "hidden"
        THEN fnOut.v = StoppingAtProse(fnArg.body)
        ELSE fnOut.v = DateOrAbsent(FieldSays(fnArg.field))

\* a template with year and month only, in a text that holds other dates
C13_Witness ==
    /\ Gave("parse_release_date") /\ fnArg.field.form = "template"
    /\ fnArg.field.d.text = <<>> /\ fnArg.field.m.text = <<"6">>
    /\ Len(fnArg.body) = 2
    /\ fnOut.v = StrV(<<"2", "0", "1", "5", "-", "0", "6", "-", "0", "1">>)

\* C14 as stated: without a date from the field the fallbacks come in a
\* fixed order: the first prose date, else the first ISO-shaped text, else
\* the first bare year with 01-01, else absent.
C14_FallbacksInFixedOrder ==
    (Gave("parse_release_date") /\ fnArg.field.form \in {"absent", "hidden"}) =>
        fnOut.v = InFixedOrder(fnArg.body)

\* C14 amended: the same order, except that the first text of the shape
\* "Month DD, YYYY" ends the search: when it is no date of the calendar
\* the result is absent and the later fallbacks are not tried.
C14_FallbacksStopAtProse ==
    (Gave("parse_release_date") /\ fnArg.field.form \in {"absent", "hidden"}) =>
        fnOut.v = StoppingAtProse(fnArg.body)

\* a bare year in front of a prose date: the prose date is returned
C14_Witness ==
    /\ Gave("parse_release_date") /\ fnArg.field.form = "absent"
    /\ Len(fnArg.body) = 2 /\ fnArg.body[1].kind = "year"
    /\ fnArg.body[2].kind = "prose"
    /\ fnOut.v = StrV(<<"2", "0", "1", "5", "-", "0", "6", "-", "1", "2">>)

\* the genres of the accepted items from item i on, given those found so far
RECURSIVE KeptGenres(_, _, _, _)
KeptGenres(items, pivot, i, found) ==
    IF i > Len(items) THEN found
    ELSE KeptGenres(items, pivot, i + 1,
            IF /\ items[i].candidate
               /\ (pivot = 0 \/ i <= pivot \/ items[i].marker)
               /\ \A x \in 1..Len(found) : found[x] # items[i].genre
            THEN Append(found, items[i].genre) ELSE found)

\* the first item that is the word "film" standing alone, 0 without one
StandalonePivot(items) ==
    LET at == {i \in 1..Len(items) : items[i].film} IN
    IF at = {} THEN 0 ELSE CHOOSE i \in at : \A j \in at : i <= j

\* without such a word, the first item that holds " film"
PivotOrAnyFilm(items) ==
    LET at == {i \in 1..Len(items) : items[i].spaceFilm} IN
    IF StandalonePivot(items) # 0 \/ at = {} THEN StandalonePivot(items)
    ELSE CHOOSE i \in at : \A j \in at : i <= j

\* C15 as stated: the pivot is the first standalone word "film" outside any
\* link; candidate links before it are accepted, those after it only with a
\* film/genre marker of their own; accepted labels are lowercased without a
\* trailing " film", duplicates dropped in first-seen order.
C15_PivotIsStandaloneFilm ==
    Gave("parse_genre") =>
        fnOut.v = KeptGenres(fnArg.items, StandalonePivot(fnArg.items), 1, <<>>)

\* C15 amended: when the sentence has no standalone word "film" outside a
\* link, the first " film" anywhere in it (inside a link label, or opening a
\* longer word) is the pivot; the link that holds it counts as before the
\* pivot. The rest is as stated.
C15_PivotFallsBackToAnyFilm ==
    Gave("parse_genre") =>
        fnOut.v = KeptGenres(fnArg.items, PivotOrAnyFilm(fnArg.items), 1, <<>>)

\* a genre before the pivot, and after it one with a marker and a trailing
\* " film"
C15_Witness ==
    /\ Gave("parse_genre") /\ Len(fnArg.items) = 3
    /\ fnArg.items[1].text = <<"[", "[", "horror", "]", "]">> /\ fnArg.items[2].film
    /\ fnArg.items[3].text = <<"[", "[", "comedy", " ", "film", "]", "]">>
    /\ fnOut.v = <<<<"horror">>, <<"comedy">>>>

\* C16: for a document that begins with any sequence of balanced templates,
\* comments, table blocks, file links and newlines, followed by prose that
\* ends at a blank line, the lead paragraph is exactly the prose.
C16_LeadIsExactlyProse ==
    Gave("lead_paragraph_wikitext") => fnOut.v = fnArg.prose

\* number of templates open behind the first n pieces (the opener is one)
RECURSIVE DepthAfter(_, _)
DepthAfter(parts, n) ==
    IF n = 0 THEN 1 ELSE DepthAfter(parts, n - 1) + parts[n].delta

\* the piece behind which no template is open any more, 0 without one
ClosedAt(parts) ==
    LET at == {n \in 1..Len(parts) : DepthAfter(parts, n) = 0} IN
    IF at = {} THEN 0 ELSE CHOOSE n \in at : \A m \in at : n <= m

KeysBefore(parts, n) == {parts[k].key : k \in 1..n} \ {<<>>}

\* C17: the scanner counts one up at each "{{" and one down at each "}}" from
\* the opener of the infobox and ends the template where the count is back at
\* 0: the fields are those that start before that point. When the text ends
\* first the field map is empty, never a part of the fields, and the scanner
\* still returns.
C17_TemplateEndsAtDepthZero ==
    Gave("extract_infobox_fields") =>
        /\ fnOut.t = "returned"
        /\ IF ClosedAt(fnArg.parts) = 0 THEN fnOut.v = EmptyFields
           ELSE DOMAIN fnOut.v = KeysBefore(fnArg.parts, ClosedAt(fnArg.parts))

\* a value that opens a template, closed before the infobox is: the field
\* behind the end of the infobox is left out
C17_Witness ==
    /\ Gave("extract_infobox_fields") /\ Len(fnArg.parts) = 4
    /\ fnArg.parts[1].delta = 1 /\ fnArg.parts[2].delta = -1
    /\ fnArg.parts[3].delta = -1 /\ fnArg.parts[4].key = <<"gross">>
    /\ DOMAIN fnOut.v = {<<"budget">>}

(***************************************************************************)
(* Properties of the resolver's results.                                   *)
(***************************************************************************)
\* the resolver has returned from a hop that obtained no markup (lines 168
\* and 171)
FailedAtHop == ppc = "resolved" /\ retLine \in {168, 171}

\* C18 as stated: when a hop obtains no markup, also a hop reached through
\* aliases, the resolver returns no markup together with the originally
\* requested label.
C18_FailedCarriesOriginal ==
    FailedAtHop => (resWt = NoText /\ resTitle = orig)

\* C18 amended: the resolver returns no markup together with the label of
\* the hop that failed: the requested label at the first hop, the target of
\* the last alias followed at a later one.  A label that is not in the index
\* can only be the requested one.
C18_FailedCarriesHopLabel ==
    FailedAtHop =>
        /\ resWt = NoText
        /\ resTitle = ChainEnd(corpus, orig, depth - 1)
        /\ (get_offset_for_title(resTitle, rows) = None =>
                (depth = 1 /\ resTitle = orig))

\* A is an alias of B, and the hop for B found no record to return
C18_Witness ==
    /\ FailedAtHop /\ retLine = 171
    /\ orig = TA /\ depth = 2 /\ resTitle = TB /\ resWt = NoText

\* the first character that is no whitespace belongs to a redirect directive
OpensWithDirective(w) ==
    \E k \in 1..Len(w) :
        /\ LowerTok(w[k]) = "#redirect"
        /\ \A j \in 1..(k - 1) : w[j] \in {" ", "\n", "\t"}

\* the page of the label is there and is no alias
IsDocument(c, l) ==
    l \in Labels /\ c[l] # <<>> /\ ~OpensWithDirective(c[l])

\* every label is indexed at the offset where its record is, and each block
\* comes out of the archive whole
WholeBlocks ==
    /\ rows = <<Row(TA, 10, 1), Row(TB, 10, 2), Row(TC, 30, 3), Row(TD, 30, 4)>>
    /\ layout[10] \in {"both", "swapped"} /\ layout[30] = "both"

StoredAt(off) == IF off = 10 THEN {TA, TB} ELSE IF off = 30 THEN {TC, TD} ELSE {}

\* two records share the offset, in either order, and the stream may go on
\* into a second or third read
SharedBlock(shape) == shape \in {"both", "swapped", "cut_y", "cut_x"}

\* C20: when two documents share one offset, the bytes the retriever returns
\* hold the complete record of the requested label whichever place it has
\* in the block, and the selector gives its markup.
C20_SharedBlockHoldsRequested ==
    (/\ ppc = "select" /\ curOffset \in Offsets /\ SharedBlock(layout[curOffset])
     /\ curTitle \in StoredAt(curOffset) /\ corpus[curTitle] # <<>>) =>
        /\ \E i \in 1..Len(RecordsOf(xml_bytes)) :
              RecordsOf(xml_bytes)[i] = [title |-> curTitle, text |-> corpus[curTitle]]
        /\ extract_wikitext_from_xml(xml_bytes, curTitle) = corpus[curTitle]

(***************************************************************************)
(* Properties of the field map.                                            *)
(***************************************************************************)
\* the lines of the template span behind the opener
SpanLines(a) == Append(a.lines, ClosingLine)

\* the lines that open the field k
KeyLinesOf(lines, k) ==
    {n \in 1..Len(lines) : lines[n].kind = "key" /\ lines[n].key = k}

FieldNames(lines) == {lines[n].key : n \in {m \in 1..Len(lines) : lines[m].kind = "key"}}

\* the text of the lines of the kinds in `kinds` from line n on, up to the
\* next line that opens a field, each behind a newline
RECURSIVE Continuation(_, _, _)
Continuation(lines, n, kinds) ==
    IF n > Len(lines) \/ lines[n].kind = "key" THEN <<>>
    ELSE (IF lines[n].kind \in kinds THEN <<"\n">> \o lines[n].shown ELSE <<>>)
         \o Continuation(lines, n + 1, kinds)

\* the value the key line n opens, with the continuation lines behind it
Occurrence(lines, n, kinds) == lines[n].value \o Continuation(lines, n + 1, kinds)

FirstOccurrence(lines, k) == CHOOSE n \in KeyLinesOf(lines, k) : \A m \in KeyLinesOf(lines, k) : n <= m

LastOccurrence(lines, k) == CHOOSE n \in KeyLinesOf(lines, k) : \A m \in KeyLinesOf(lines, k) : n >= m

\* C21 as stated: when a field name stands on more than one key line, the
\* map holds the value of the first of them with its continuation lines; a
\* later occurrence does not overwrite it.
C21_FirstOccurrenceKept ==
    Gave("field_lines") =>
        \A k \in FieldNames(SpanLines(fnArg)) :
            /\ k \in DOMAIN fnOut.v
            /\ fnOut.v[k] = Occurrence(SpanLines(fnArg),
                                FirstOccurrence(SpanLines(fnArg), k), {"more"})

\* C21 amended: the map holds, for each field name, the value of the last
\* key line with that name together with the continuation lines behind that
\* line; what earlier occurrences had gathered is replaced.
C21_LastOccurrenceKept ==
    Gave("field_lines") =>
        /\ DOMAIN fnOut.v = FieldNames(SpanLines(fnArg))
        /\ \A k \in FieldNames(SpanLines(fnArg)) :
              fnOut.v[k] = Occurrence(SpanLines(fnArg),
                              LastOccurrence(SpanLines(fnArg), k), {"more"})

\* director = Ann with a continuation line, then Director = Bob: Bob and
\* what follows it is what the map holds
C21_Witness ==
    /\ Gave("field_lines") /\ Len(fnArg.lines) = 3
    /\ fnArg.lines[1].value = <<"Ann">> /\ fnArg.lines[2].kind = "more"
    /\ fnArg.lines[3].value = <<"Bob">>
    /\ fnOut.v = [k \in {<<"director">>} |-> <<"Bob", "\n", "}", "}">>]

\* C22: once a field is open, every line that is not blank and opens no
\* field, a line that starts with the separator and holds no "=" included,
\* is appended in order to the value of the current field.
C22_EveryLineAppended ==
    Gave("field_lines") =>
        \A k \in FieldNames(SpanLines(fnArg)) :
            /\ k \in DOMAIN fnOut.v
            /\ fnOut.v[k] = Occurrence(SpanLines(fnArg),
                                LastOccurrence(SpanLines(fnArg), k), {"more", "bar"})

(***************************************************************************)
(* Properties of the build's transaction.                                  *)
(***************************************************************************)
\* the build has started its insert pass and has not committed
Uncommitted == insertPasses = 1 /\ ~committed

\* C23 as stated: each batch is committed when it is inserted, so the open
\* transaction never holds more than one batch of uncommitted entries.
C23_OneBatchUncommitted ==
    Len(txnRows) <= BatchSize

\* C23 amended: entries are collected and inserted in batches (the list of
\* collected entries never reaches the batch size between two lines), but
\* no insert commits: an insert leaves the committed store as it is, the
\* uncommitted entries only accumulate while the source is read, and they
\* are committed together by the one commit at the end.
C23_BatchesInsertedNotCommitted ==
    /\ [](Len(batch) < BatchSize)
    /\ [][(executed' = executed + 1) =>
            (/\ rows' = rows /\ fts' = fts /\ committed' = committed
             /\ Len(txnRows') >= Len(txnRows)
             /\ SubSeq(txnRows', 1, Len(txnRows)) = txnRows)]_vars
    /\ [][(committed' /\ ~committed) =>
            (bpc = "commit" /\ rows' = txnRows /\ fts' = txnFts)]_vars

\* two inserts have run for more entries than one batch holds, and nothing
\* is committed yet
C23_Witness ==
    /\ Uncommitted /\ bpc = "commit"
    /\ executed >= 2 /\ total > BatchSize
    /\ txnRows # <<>> /\ rows = <<>>

\* the labels of the lines of a source that were written from an entry
SourceLabels(src) ==
    {e.title : e \in UNION {LineEntries(src[i]) : i \in 1..Len(src)}}

\* C24: until the single commit at the end of build the store holds no
\* committed entry and no search row; after it the store holds the entry of
\* every label of the source (the one recorded first) and one search row for
\* each, so every label of the search structure has exactly one entry.  The
\* committed tables change at the commit and nowhere else, hence a build cut
\* short at any point leaves no entry or all of them.
C24_DurableAllAtOnce ==
    /\ [](Uncommitted => (rows = <<>> /\ fts = <<>>))
    /\ [][(rows' # rows \/ fts' # fts) => (bpc = "commit" /\ bpc' = "done")]_vars
    /\ [](committed =>
            /\ {rows[i].title : i \in 1..Len(rows)} = SourceLabels(source)
            /\ Len(rows) = Cardinality(SourceLabels(source))
            /\ \A i \in 1..Len(rows) :
                   rows[i].offset = RecordedOffset(source, rows[i].title)
            /\ Len(fts) = Len(rows)
            /\ \A i \in 1..Len(fts) :
                   /\ fts[i] = rows[i].title
                   /\ Cardinality({j \in 1..Len(rows) : rows[j].title = fts[i]}) = 1)

\* a source that names one label twice has been committed: two entries, two
\* search rows
C24_Witness ==
    /\ committed /\ bpc = "done" /\ builds = 1
    /\ Len(source) = 3 /\ total = 3
    /\ Len(rows) = 2 /\ Len(fts) = 2

====
